---- MODULE Spec2Model ----
(***************************************************************************)
(* Model of the move-document engine of gcode_generator.py: the document   *)
(* gcode_lines, the single-slot undo snapshot, the merge-on-append rule,   *)
(* the loop (offset) generator, import and export.                         *)
(*                                                                         *)
(* Text is a sequence of one-character strings.  A float is a record that  *)
(* holds what repr() prints of the IEEE double: its sign and the digits    *)
(* and decimal exponent of its shortest decimal form, or an infinity, or   *)
(* a nan.  float(), str(), "%.6f" and the arithmetic of the handlers are   *)
(* computed on exact decimals and rounded as doubles round.  None is the   *)
(* empty sequence; an optional value is <<>> or <<v>>.  An exception that  *)
(* leaves a handler is the message "OverflowError" of its run.             *)
(***************************************************************************)
EXTENDS Integers, Sequences, FiniteSets, TLC

\* ------------------------------------------------------------------ bounds

\* Longest document the handlers are let build under Spec.
MaxLen == 2

\* Longest document the appends are let build under AppendSpec.
MaxAppendLen == 3

\* Most iterations of the loop's while the model follows.
MaxK == 3

\* Most raw lines of a file under ScanSpec.
MaxFile == 5

\* ------------------------------------------------------------ text helpers

Abs(n) == IF n < 0 THEN -n ELSE n

Min(a, b) == IF a < b THEN a ELSE b

Max(a, b) == IF a > b THEN a ELSE b

None == <<>>

Digits == <<"0", "1", "2", "3", "4", "5", "6", "7", "8", "9">>

\* A text is a sequence of characters.  A character is a string: the character
\* itself or, for a character that a string constant of this module cannot hold
\* (the grave accent and much of what lies beyond Latin-1), its name "U+XXXX", the
\* code point in hexadecimal.

\* The value of each character float() reads as a decimal digit: the decimal
\* digits of every script.
DigitMap ==
    [c \in {"0", "U+0660", "۰", "߀", "U+0966", "০", "U+0A66", "૦", "U+0B66", "௦",
            "U+0C66", "೦", "U+0D66", "෦", "U+0E50", "໐", "U+0F20", "U+1040", "႐", "០",
            "U+1810", "U+1946", "᧐", "᪀", "᪐", "U+1B50", "᮰", "U+1C40", "U+1C50",
            "U+A620", "꣐", "U+A900", "꧐", "꧰", "U+AA50", "꯰", "U+FF10", "U+104A0",
            "U+10D30", "U+11066", "U+110F0", "U+11136", "U+111D0", "U+112F0",
            "U+11450", "U+114D0", "U+11650", "U+116C0", "U+11730", "U+118E0",
            "U+11950", "U+11C50", "U+11D50", "U+11DA0", "U+16A60", "U+16AC0",
            "U+16B50", "U+1D7CE", "U+1D7D8", "U+1D7E2", "U+1D7EC", "U+1D7F6",
            "U+1E140", "U+1E2F0", "U+1E950", "U+1FBF0"} |-> 0] @@
    [c \in {"1", "U+0661", "۱", "߁", "U+0967", "১", "U+0A67", "૧", "U+0B67", "௧",
            "U+0C67", "೧", "U+0D67", "෧", "U+0E51", "໑", "U+0F21", "U+1041", "႑", "១",
            "U+1811", "U+1947", "᧑", "᪁", "᪑", "U+1B51", "᮱", "U+1C41", "U+1C51",
            "U+A621", "꣑", "U+A901", "꧑", "꧱", "U+AA51", "꯱", "U+FF11", "U+104A1",
            "U+10D31", "U+11067", "U+110F1", "U+11137", "U+111D1", "U+112F1",
            "U+11451", "U+114D1", "U+11651", "U+116C1", "U+11731", "U+118E1",
            "U+11951", "U+11C51", "U+11D51", "U+11DA1", "U+16A61", "U+16AC1",
            "U+16B51", "U+1D7CF", "U+1D7D9", "U+1D7E3", "U+1D7ED", "U+1D7F7",
            "U+1E141", "U+1E2F1", "U+1E951", "U+1FBF1"} |-> 1] @@
    [c \in {"2", "U+0662", "۲", "߂", "U+0968", "২", "U+0A68", "૨", "U+0B68", "௨",
            "U+0C68", "೨", "U+0D68", "෨", "U+0E52", "໒", "U+0F22", "U+1042", "႒", "២",
            "U+1812", "U+1948", "᧒", "᪂", "᪒", "U+1B52", "᮲", "U+1C42", "U+1C52",
            "U+A622", "꣒", "U+A902", "꧒", "꧲", "U+AA52", "꯲", "U+FF12", "U+104A2",
            "U+10D32", "U+11068", "U+110F2", "U+11138", "U+111D2", "U+112F2",
            "U+11452", "U+114D2", "U+11652", "U+116C2", "U+11732", "U+118E2",
            "U+11952", "U+11C52", "U+11D52", "U+11DA2", "U+16A62", "U+16AC2",
            "U+16B52", "U+1D7D0", "U+1D7DA", "U+1D7E4", "U+1D7EE", "U+1D7F8",
            "U+1E142", "U+1E2F2", "U+1E952", "U+1FBF2"} |-> 2] @@
    [c \in {"3", "U+0663", "۳", "߃", "U+0969", "৩", "U+0A69", "૩", "U+0B69", "௩",
            "U+0C69", "೩", "U+0D69", "෩", "U+0E53", "໓", "U+0F23", "U+1043", "႓", "៣",
            "U+1813", "U+1949", "᧓", "᪃", "᪓", "U+1B53", "᮳", "U+1C43", "U+1C53",
            "U+A623", "꣓", "U+A903", "꧓", "꧳", "U+AA53", "꯳", "U+FF13", "U+104A3",
            "U+10D33", "U+11069", "U+110F3", "U+11139", "U+111D3", "U+112F3",
            "U+11453", "U+114D3", "U+11653", "U+116C3", "U+11733", "U+118E3",
            "U+11953", "U+11C53", "U+11D53", "U+11DA3", "U+16A63", "U+16AC3",
            "U+16B53", "U+1D7D1", "U+1D7DB", "U+1D7E5", "U+1D7EF", "U+1D7F9",
            "U+1E143", "U+1E2F3", "U+1E953", "U+1FBF3"} |-> 3] @@
    [c \in {"4", "U+0664", "۴", "߄", "U+096A", "৪", "U+0A6A", "૪", "U+0B6A", "௪",
            "U+0C6A", "೪", "U+0D6A", "෪", "U+0E54", "໔", "U+0F24", "U+1044", "႔", "៤",
            "U+1814", "U+194A", "᧔", "᪄", "᪔", "U+1B54", "᮴", "U+1C44", "U+1C54",
            "U+A624", "꣔", "U+A904", "꧔", "꧴", "U+AA54", "꯴", "U+FF14", "U+104A4",
            "U+10D34", "U+1106A", "U+110F4", "U+1113A", "U+111D4", "U+112F4",
            "U+11454", "U+114D4", "U+11654", "U+116C4", "U+11734", "U+118E4",
            "U+11954", "U+11C54", "U+11D54", "U+11DA4", "U+16A64", "U+16AC4",
            "U+16B54", "U+1D7D2", "U+1D7DC", "U+1D7E6", "U+1D7F0", "U+1D7FA",
            "U+1E144", "U+1E2F4", "U+1E954", "U+1FBF4"} |-> 4] @@
    [c \in {"5", "U+0665", "۵", "߅", "U+096B", "৫", "U+0A6B", "૫", "U+0B6B", "௫",
            "U+0C6B", "೫", "U+0D6B", "෫", "U+0E55", "໕", "U+0F25", "U+1045", "႕", "៥",
            "U+1815", "U+194B", "᧕", "᪅", "᪕", "U+1B55", "᮵", "U+1C45", "U+1C55",
            "U+A625", "꣕", "U+A905", "꧕", "꧵", "U+AA55", "꯵", "U+FF15", "U+104A5",
            "U+10D35", "U+1106B", "U+110F5", "U+1113B", "U+111D5", "U+112F5",
            "U+11455", "U+114D5", "U+11655", "U+116C5", "U+11735", "U+118E5",
            "U+11955", "U+11C55", "U+11D55", "U+11DA5", "U+16A65", "U+16AC5",
            "U+16B55", "U+1D7D3", "U+1D7DD", "U+1D7E7", "U+1D7F1", "U+1D7FB",
            "U+1E145", "U+1E2F5", "U+1E955", "U+1FBF5"} |-> 5] @@
    [c \in {"6", "U+0666", "۶", "߆", "U+096C", "৬", "U+0A6C", "૬", "U+0B6C", "௬",
            "U+0C6C", "೬", "U+0D6C", "෬", "U+0E56", "໖", "U+0F26", "U+1046", "႖", "៦",
            "U+1816", "U+194C", "᧖", "᪆", "᪖", "U+1B56", "᮶", "U+1C46", "U+1C56",
            "U+A626", "꣖", "U+A906", "꧖", "꧶", "U+AA56", "꯶", "U+FF16", "U+104A6",
            "U+10D36", "U+1106C", "U+110F6", "U+1113C", "U+111D6", "U+112F6",
            "U+11456", "U+114D6", "U+11656", "U+116C6", "U+11736", "U+118E6",
            "U+11956", "U+11C56", "U+11D56", "U+11DA6", "U+16A66", "U+16AC6",
            "U+16B56", "U+1D7D4", "U+1D7DE", "U+1D7E8", "U+1D7F2", "U+1D7FC",
            "U+1E146", "U+1E2F6", "U+1E956", "U+1FBF6"} |-> 6] @@
    [c \in {"7", "U+0667", "۷", "߇", "U+096D", "৭", "U+0A6D", "૭", "U+0B6D", "௭",
            "U+0C6D", "೭", "U+0D6D", "෭", "U+0E57", "໗", "U+0F27", "U+1047", "႗", "៧",
            "U+1817", "U+194D", "᧗", "᪇", "᪗", "U+1B57", "᮷", "U+1C47", "U+1C57",
            "U+A627", "꣗", "U+A907", "꧗", "꧷", "U+AA57", "꯷", "U+FF17", "U+104A7",
            "U+10D37", "U+1106D", "U+110F7", "U+1113D", "U+111D7", "U+112F7",
            "U+11457", "U+114D7", "U+11657", "U+116C7", "U+11737", "U+118E7",
            "U+11957", "U+11C57", "U+11D57", "U+11DA7", "U+16A67", "U+16AC7",
            "U+16B57", "U+1D7D5", "U+1D7DF", "U+1D7E9", "U+1D7F3", "U+1D7FD",
            "U+1E147", "U+1E2F7", "U+1E957", "U+1FBF7"} |-> 7] @@
    [c \in {"8", "U+0668", "۸", "߈", "U+096E", "৮", "U+0A6E", "૮", "U+0B6E", "௮",
            "U+0C6E", "೮", "U+0D6E", "෮", "U+0E58", "໘", "U+0F28", "U+1048", "႘", "៨",
            "U+1818", "U+194E", "᧘", "᪈", "᪘", "U+1B58", "᮸", "U+1C48", "U+1C58",
            "U+A628", "꣘", "U+A908", "꧘", "꧸", "U+AA58", "꯸", "U+FF18", "U+104A8",
            "U+10D38", "U+1106E", "U+110F8", "U+1113E", "U+111D8", "U+112F8",
            "U+11458", "U+114D8", "U+11658", "U+116C8", "U+11738", "U+118E8",
            "U+11958", "U+11C58", "U+11D58", "U+11DA8", "U+16A68", "U+16AC8",
            "U+16B58", "U+1D7D6", "U+1D7E0", "U+1D7EA", "U+1D7F4", "U+1D7FE",
            "U+1E148", "U+1E2F8", "U+1E958", "U+1FBF8"} |-> 8] @@
    [c \in {"9", "U+0669", "۹", "߉", "U+096F", "৯", "U+0A6F", "૯", "U+0B6F", "௯",
            "U+0C6F", "೯", "U+0D6F", "෯", "U+0E59", "໙", "U+0F29", "U+1049", "႙", "៩",
            "U+1819", "U+194F", "᧙", "᪉", "᪙", "U+1B59", "᮹", "U+1C49", "U+1C59",
            "U+A629", "꣙", "U+A909", "꧙", "꧹", "U+AA59", "꯹", "U+FF19", "U+104A9",
            "U+10D39", "U+1106F", "U+110F9", "U+1113F", "U+111D9", "U+112F9",
            "U+11459", "U+114D9", "U+11659", "U+116C9", "U+11739", "U+118E9",
            "U+11959", "U+11C59", "U+11D59", "U+11DA9", "U+16A69", "U+16AC9",
            "U+16B59", "U+1D7D7", "U+1D7E1", "U+1D7EB", "U+1D7F5", "U+1D7FF",
            "U+1E149", "U+1E2F9", "U+1E959", "U+1FBF9"} |-> 9]

IsDigit(c) == c \in DOMAIN DigitMap

\* The characters str.strip() and str.split() take for whitespace (str.isspace).
WhiteSpace == {
    "\t", "\n", "", "\f", "\r", "", "", "", "", " ", "", " ", " ", "U+2000",
    "U+2001", "U+2002", "U+2003", "U+2004", "U+2005", "U+2006", "U+2007", "U+2008",
    "U+2009", "U+200A", "U+2028", "U+2029", "U+202F", "U+205F", "U+3000" }

\* The characters float() skips at the two ends of its argument: the whitespace
\* above without the separators U+001C..U+001F.
FloatSpace == {
    "\t", "\n", "", "\f", "\r", " ", "", " ", " ", "U+2000", "U+2001", "U+2002",
    "U+2003", "U+2004", "U+2005", "U+2006", "U+2007", "U+2008", "U+2009", "U+200A",
    "U+2028", "U+2029", "U+202F", "U+205F", "U+3000" }

\* str.upper() of each character that it changes: a text of one character, or
\* of two or three (U+00DF gives "SS", U+1E99 gives "Y" and U+030A).
UpperMap ==
    (("a" :> <<"A">>) @@ ("b" :> <<"B">>) @@ ("c" :> <<"C">>) @@ ("d" :> <<"D">>) @@
     ("e" :> <<"E">>) @@ ("f" :> <<"F">>) @@ ("g" :> <<"G">>) @@ ("h" :> <<"H">>) @@
     ("i" :> <<"I">>) @@ ("j" :> <<"J">>) @@ ("k" :> <<"K">>) @@ ("l" :> <<"L">>) @@
     ("m" :> <<"M">>) @@ ("n" :> <<"N">>) @@ ("o" :> <<"O">>) @@ ("p" :> <<"P">>) @@
     ("q" :> <<"Q">>) @@ ("r" :> <<"R">>) @@ ("s" :> <<"S">>) @@ ("t" :> <<"T">>) @@
     ("u" :> <<"U">>) @@ ("v" :> <<"V">>) @@ ("w" :> <<"W">>) @@ ("x" :> <<"X">>)) @@
    (("y" :> <<"Y">>) @@ ("z" :> <<"Z">>) @@ ("µ" :> <<"Μ">>) @@ ("ß" :> <<"S", "S">>) @@
     ("à" :> <<"À">>) @@ ("á" :> <<"Á">>) @@ ("â" :> <<"Â">>) @@ ("ã" :> <<"Ã">>) @@
     ("ä" :> <<"Ä">>) @@ ("å" :> <<"Å">>) @@ ("æ" :> <<"Æ">>) @@ ("ç" :> <<"Ç">>) @@
     ("è" :> <<"È">>) @@ ("é" :> <<"É">>) @@ ("ê" :> <<"Ê">>) @@ ("ë" :> <<"Ë">>) @@
     ("ì" :> <<"Ì">>) @@ ("í" :> <<"Í">>) @@ ("î" :> <<"Î">>) @@ ("ï" :> <<"Ï">>) @@
     ("ð" :> <<"Ð">>) @@ ("ñ" :> <<"Ñ">>) @@ ("ò" :> <<"Ò">>) @@ ("ó" :> <<"Ó">>)) @@
    (("ô" :> <<"Ô">>) @@ ("õ" :> <<"Õ">>) @@ ("ö" :> <<"Ö">>) @@ ("ø" :> <<"Ø">>) @@
     ("ù" :> <<"Ù">>) @@ ("ú" :> <<"Ú">>) @@ ("û" :> <<"Û">>) @@ ("ü" :> <<"Ü">>) @@
     ("ý" :> <<"Ý">>) @@ ("þ" :> <<"Þ">>) @@ ("ÿ" :> <<"U+0178">>) @@ ("U+0101" :> <<"U+0100">>) @@
     ("U+0103" :> <<"U+0102">>) @@ ("U+0105" :> <<"U+0104">>) @@ ("U+0107" :> <<"U+0106">>) @@ ("U+0109" :> <<"U+0108">>) @@
     ("U+010B" :> <<"U+010A">>) @@ ("U+010D" :> <<"U+010C">>) @@ ("U+010F" :> <<"U+010E">>) @@ ("U+0111" :> <<"U+0110">>) @@
     ("U+0113" :> <<"U+0112">>) @@ ("U+0115" :> <<"U+0114">>) @@ ("U+0117" :> <<"U+0116">>) @@ ("U+0119" :> <<"U+0118">>)) @@
    (("U+011B" :> <<"U+011A">>) @@ ("U+011D" :> <<"U+011C">>) @@ ("U+011F" :> <<"U+011E">>) @@ ("U+0121" :> <<"U+0120">>) @@
     ("U+0123" :> <<"U+0122">>) @@ ("U+0125" :> <<"U+0124">>) @@ ("U+0127" :> <<"U+0126">>) @@ ("U+0129" :> <<"U+0128">>) @@
     ("U+012B" :> <<"U+012A">>) @@ ("U+012D" :> <<"U+012C">>) @@ ("U+012F" :> <<"U+012E">>) @@ ("U+0131" :> <<"I">>) @@
     ("U+0133" :> <<"U+0132">>) @@ ("U+0135" :> <<"U+0134">>) @@ ("U+0137" :> <<"U+0136">>) @@ ("U+013A" :> <<"U+0139">>) @@
     ("U+013C" :> <<"U+013B">>) @@ ("U+013E" :> <<"U+013D">>) @@ ("U+0140" :> <<"U+013F">>) @@ ("U+0142" :> <<"U+0141">>) @@
     ("U+0144" :> <<"U+0143">>) @@ ("U+0146" :> <<"U+0145">>) @@ ("U+0148" :> <<"U+0147">>) @@ ("U+0149" :> <<"ʼ", "N">>)) @@
    (("U+014B" :> <<"U+014A">>) @@ ("U+014D" :> <<"U+014C">>) @@ ("U+014F" :> <<"U+014E">>) @@ ("U+0151" :> <<"U+0150">>) @@
     ("U+0153" :> <<"U+0152">>) @@ ("U+0155" :> <<"U+0154">>) @@ ("U+0157" :> <<"U+0156">>) @@ ("U+0159" :> <<"U+0158">>) @@
     ("U+015B" :> <<"U+015A">>) @@ ("U+015D" :> <<"U+015C">>) @@ ("U+015F" :> <<"U+015E">>) @@ ("U+0161" :> <<"U+0160">>) @@
     ("U+0163" :> <<"U+0162">>) @@ ("U+0165" :> <<"U+0164">>) @@ ("U+0167" :> <<"U+0166">>) @@ ("U+0169" :> <<"U+0168">>) @@
     ("U+016B" :> <<"U+016A">>) @@ ("U+016D" :> <<"U+016C">>) @@ ("U+016F" :> <<"U+016E">>) @@ ("U+0171" :> <<"U+0170">>) @@
     ("U+0173" :> <<"U+0172">>) @@ ("U+0175" :> <<"U+0174">>) @@ ("U+0177" :> <<"U+0176">>) @@ ("U+017A" :> <<"U+0179">>)) @@
    (("U+017C" :> <<"U+017B">>) @@ ("U+017E" :> <<"U+017D">>) @@ ("U+017F" :> <<"S">>) @@ ("ƀ" :> <<"U+0243">>) @@
     ("ƃ" :> <<"Ƃ">>) @@ ("ƅ" :> <<"Ƅ">>) @@ ("ƈ" :> <<"Ƈ">>) @@ ("ƌ" :> <<"Ƌ">>) @@
     ("ƒ" :> <<"Ƒ">>) @@ ("ƕ" :> <<"Ƕ">>) @@ ("ƙ" :> <<"Ƙ">>) @@ ("ƚ" :> <<"U+023D">>) @@
     ("ƞ" :> <<"U+0220">>) @@ ("ơ" :> <<"Ơ">>) @@ ("ƣ" :> <<"Ƣ">>) @@ ("ƥ" :> <<"Ƥ">>) @@
     ("ƨ" :> <<"Ƨ">>) @@ ("ƭ" :> <<"Ƭ">>) @@ ("ư" :> <<"Ư">>) @@ ("ƴ" :> <<"Ƴ">>) @@
     ("ƶ" :> <<"Ƶ">>) @@ ("ƹ" :> <<"Ƹ">>) @@ ("ƽ" :> <<"Ƽ">>) @@ ("ƿ" :> <<"Ƿ">>)) @@
    (("ǅ" :> <<"Ǆ">>) @@ ("ǆ" :> <<"Ǆ">>) @@ ("ǈ" :> <<"Ǉ">>) @@ ("ǉ" :> <<"Ǉ">>) @@
     ("ǋ" :> <<"Ǌ">>) @@ ("ǌ" :> <<"Ǌ">>) @@ ("ǎ" :> <<"Ǎ">>) @@ ("ǐ" :> <<"Ǐ">>) @@
     ("ǒ" :> <<"Ǒ">>) @@ ("ǔ" :> <<"Ǔ">>) @@ ("ǖ" :> <<"Ǖ">>) @@ ("ǘ" :> <<"Ǘ">>) @@
     ("ǚ" :> <<"Ǚ">>) @@ ("ǜ" :> <<"Ǜ">>) @@ ("ǝ" :> <<"Ǝ">>) @@ ("ǟ" :> <<"Ǟ">>) @@
     ("ǡ" :> <<"Ǡ">>) @@ ("ǣ" :> <<"Ǣ">>) @@ ("ǥ" :> <<"Ǥ">>) @@ ("ǧ" :> <<"Ǧ">>) @@
     ("ǩ" :> <<"Ǩ">>) @@ ("ǫ" :> <<"Ǫ">>) @@ ("ǭ" :> <<"Ǭ">>) @@ ("ǯ" :> <<"Ǯ">>)) @@
    (("ǰ" :> <<"J", "U+030C">>) @@ ("ǲ" :> <<"Ǳ">>) @@ ("ǳ" :> <<"Ǳ">>) @@ ("ǵ" :> <<"Ǵ">>) @@
     ("ǹ" :> <<"Ǹ">>) @@ ("ǻ" :> <<"Ǻ">>) @@ ("ǽ" :> <<"Ǽ">>) @@ ("ǿ" :> <<"Ǿ">>) @@
     ("U+0201" :> <<"U+0200">>) @@ ("U+0203" :> <<"U+0202">>) @@ ("U+0205" :> <<"U+0204">>) @@ ("U+0207" :> <<"U+0206">>) @@
     ("U+0209" :> <<"U+0208">>) @@ ("U+020B" :> <<"U+020A">>) @@ ("U+020D" :> <<"U+020C">>) @@ ("U+020F" :> <<"U+020E">>) @@
     ("U+0211" :> <<"U+0210">>) @@ ("U+0213" :> <<"U+0212">>) @@ ("U+0215" :> <<"U+0214">>) @@ ("U+0217" :> <<"U+0216">>) @@
     ("U+0219" :> <<"U+0218">>) @@ ("U+021B" :> <<"U+021A">>) @@ ("U+021D" :> <<"U+021C">>) @@ ("U+021F" :> <<"U+021E">>)) @@
    (("U+0223" :> <<"U+0222">>) @@ ("U+0225" :> <<"U+0224">>) @@ ("U+0227" :> <<"U+0226">>) @@ ("U+0229" :> <<"U+0228">>) @@
     ("U+022B" :> <<"U+022A">>) @@ ("U+022D" :> <<"U+022C">>) @@ ("U+022F" :> <<"U+022E">>) @@ ("U+0231" :> <<"U+0230">>) @@
     ("U+0233" :> <<"U+0232">>) @@ ("U+023C" :> <<"U+023B">>) @@ ("U+023F" :> <<"U+2C7E">>) @@ ("U+0240" :> <<"U+2C7F">>) @@
     ("U+0242" :> <<"U+0241">>) @@ ("U+0247" :> <<"U+0246">>) @@ ("U+0249" :> <<"U+0248">>) @@ ("U+024B" :> <<"U+024A">>) @@
     ("U+024D" :> <<"U+024C">>) @@ ("U+024F" :> <<"U+024E">>) @@ ("U+0250" :> <<"U+2C6F">>) @@ ("U+0251" :> <<"U+2C6D">>) @@
     ("U+0252" :> <<"U+2C70">>) @@ ("U+0253" :> <<"Ɓ">>) @@ ("U+0254" :> <<"Ɔ">>) @@ ("U+0256" :> <<"Ɖ">>)) @@
    (("U+0257" :> <<"Ɗ">>) @@ ("U+0259" :> <<"Ə">>) @@ ("U+025B" :> <<"Ɛ">>) @@ ("U+025C" :> <<"Ɜ">>) @@
     ("U+0260" :> <<"Ɠ">>) @@ ("U+0261" :> <<"Ɡ">>) @@ ("U+0263" :> <<"Ɣ">>) @@ ("U+0265" :> <<"Ɥ">>) @@
     ("U+0266" :> <<"Ɦ">>) @@ ("U+0268" :> <<"Ɨ">>) @@ ("U+0269" :> <<"Ɩ">>) @@ ("U+026A" :> <<"Ɪ">>) @@
     ("U+026B" :> <<"U+2C62">>) @@ ("U+026C" :> <<"Ɬ">>) @@ ("U+026F" :> <<"Ɯ">>) @@ ("U+0271" :> <<"U+2C6E">>) @@
     ("U+0272" :> <<"Ɲ">>) @@ ("U+0275" :> <<"Ɵ">>) @@ ("U+027D" :> <<"U+2C64">>) @@ ("ʀ" :> <<"Ʀ">>) @@
     ("ʂ" :> <<"Ʂ">>) @@ ("ʃ" :> <<"Ʃ">>) @@ ("ʇ" :> <<"Ʇ">>) @@ ("ʈ" :> <<"Ʈ">>)) @@
    (("ʉ" :> <<"U+0244">>) @@ ("ʊ" :> <<"Ʊ">>) @@ ("ʋ" :> <<"Ʋ">>) @@ ("ʌ" :> <<"U+0245">>) @@
     ("ʒ" :> <<"Ʒ">>) @@ ("ʝ" :> <<"Ʝ">>) @@ ("ʞ" :> <<"Ʞ">>) @@ ("U+0345" :> <<"Ι">>) @@
     ("U+0371" :> <<"U+0370">>) @@ ("U+0373" :> <<"U+0372">>) @@ ("U+0377" :> <<"U+0376">>) @@ ("U+037B" :> <<"Ͻ">>) @@
     ("U+037C" :> <<"Ͼ">>) @@ ("U+037D" :> <<"Ͽ">>) @@ ("ΐ" :> <<"Ι", "U+0308", "U+0301">>) @@ ("ά" :> <<"Ά">>) @@
     ("έ" :> <<"Έ">>) @@ ("ή" :> <<"Ή">>) @@ ("ί" :> <<"Ί">>) @@ ("ΰ" :> <<"Υ", "U+0308", "U+0301">>) @@
     ("α" :> <<"Α">>) @@ ("β" :> <<"Β">>) @@ ("γ" :> <<"Γ">>) @@ ("δ" :> <<"Δ">>)) @@
    (("ε" :> <<"Ε">>) @@ ("ζ" :> <<"Ζ">>) @@ ("η" :> <<"Η">>) @@ ("θ" :> <<"Θ">>) @@
     ("ι" :> <<"Ι">>) @@ ("κ" :> <<"Κ">>) @@ ("λ" :> <<"Λ">>) @@ ("μ" :> <<"Μ">>) @@
     ("ν" :> <<"Ν">>) @@ ("ξ" :> <<"Ξ">>) @@ ("ο" :> <<"Ο">>) @@ ("π" :> <<"Π">>) @@
     ("ρ" :> <<"Ρ">>) @@ ("ς" :> <<"Σ">>) @@ ("σ" :> <<"Σ">>) @@ ("τ" :> <<"Τ">>) @@
     ("υ" :> <<"Υ">>) @@ ("φ" :> <<"Φ">>) @@ ("χ" :> <<"Χ">>) @@ ("ψ" :> <<"Ψ">>) @@
     ("ω" :> <<"Ω">>) @@ ("ϊ" :> <<"Ϊ">>) @@ ("ϋ" :> <<"Ϋ">>) @@ ("ό" :> <<"Ό">>)) @@
    (("ύ" :> <<"Ύ">>) @@ ("ώ" :> <<"Ώ">>) @@ ("ϐ" :> <<"Β">>) @@ ("ϑ" :> <<"Θ">>) @@
     ("ϕ" :> <<"Φ">>) @@ ("ϖ" :> <<"Π">>) @@ ("ϗ" :> <<"Ϗ">>) @@ ("ϙ" :> <<"Ϙ">>) @@
     ("ϛ" :> <<"Ϛ">>) @@ ("ϝ" :> <<"Ϝ">>) @@ ("ϟ" :> <<"Ϟ">>) @@ ("ϡ" :> <<"Ϡ">>) @@
     ("ϣ" :> <<"Ϣ">>) @@ ("ϥ" :> <<"Ϥ">>) @@ ("ϧ" :> <<"Ϧ">>) @@ ("ϩ" :> <<"Ϩ">>) @@
     ("ϫ" :> <<"Ϫ">>) @@ ("ϭ" :> <<"Ϭ">>) @@ ("ϯ" :> <<"Ϯ">>) @@ ("ϰ" :> <<"Κ">>) @@
     ("ϱ" :> <<"Ρ">>) @@ ("ϲ" :> <<"Ϲ">>) @@ ("ϳ" :> <<"U+037F">>) @@ ("ϵ" :> <<"Ε">>)) @@
    (("ϸ" :> <<"Ϸ">>) @@ ("ϻ" :> <<"Ϻ">>) @@ ("U+0430" :> <<"U+0410">>) @@ ("U+0431" :> <<"U+0411">>) @@
     ("U+0432" :> <<"U+0412">>) @@ ("U+0433" :> <<"U+0413">>) @@ ("U+0434" :> <<"U+0414">>) @@ ("U+0435" :> <<"U+0415">>) @@
     ("U+0436" :> <<"U+0416">>) @@ ("U+0437" :> <<"U+0417">>) @@ ("U+0438" :> <<"U+0418">>) @@ ("U+0439" :> <<"U+0419">>) @@
     ("U+043A" :> <<"U+041A">>) @@ ("U+043B" :> <<"U+041B">>) @@ ("U+043C" :> <<"U+041C">>) @@ ("U+043D" :> <<"U+041D">>) @@
     ("U+043E" :> <<"U+041E">>) @@ ("U+043F" :> <<"U+041F">>) @@ ("U+0440" :> <<"U+0420">>) @@ ("U+0441" :> <<"U+0421">>) @@
     ("U+0442" :> <<"U+0422">>) @@ ("U+0443" :> <<"U+0423">>) @@ ("U+0444" :> <<"U+0424">>) @@ ("U+0445" :> <<"U+0425">>)) @@
    (("U+0446" :> <<"U+0426">>) @@ ("U+0447" :> <<"U+0427">>) @@ ("U+0448" :> <<"U+0428">>) @@ ("U+0449" :> <<"U+0429">>) @@
     ("U+044A" :> <<"U+042A">>) @@ ("U+044B" :> <<"U+042B">>) @@ ("U+044C" :> <<"U+042C">>) @@ ("U+044D" :> <<"U+042D">>) @@
     ("U+044E" :> <<"U+042E">>) @@ ("U+044F" :> <<"U+042F">>) @@ ("U+0450" :> <<"U+0400">>) @@ ("U+0451" :> <<"U+0401">>) @@
     ("U+0452" :> <<"U+0402">>) @@ ("U+0453" :> <<"U+0403">>) @@ ("U+0454" :> <<"U+0404">>) @@ ("U+0455" :> <<"U+0405">>) @@
     ("U+0456" :> <<"U+0406">>) @@ ("U+0457" :> <<"U+0407">>) @@ ("U+0458" :> <<"U+0408">>) @@ ("U+0459" :> <<"U+0409">>) @@
     ("U+045A" :> <<"U+040A">>) @@ ("U+045B" :> <<"U+040B">>) @@ ("U+045C" :> <<"U+040C">>) @@ ("U+045D" :> <<"U+040D">>)) @@
    (("U+045E" :> <<"U+040E">>) @@ ("U+045F" :> <<"U+040F">>) @@ ("U+0461" :> <<"U+0460">>) @@ ("U+0463" :> <<"U+0462">>) @@
     ("U+0465" :> <<"U+0464">>) @@ ("U+0467" :> <<"U+0466">>) @@ ("U+0469" :> <<"U+0468">>) @@ ("U+046B" :> <<"U+046A">>) @@
     ("U+046D" :> <<"U+046C">>) @@ ("U+046F" :> <<"U+046E">>) @@ ("U+0471" :> <<"U+0470">>) @@ ("U+0473" :> <<"U+0472">>) @@
     ("U+0475" :> <<"U+0474">>) @@ ("U+0477" :> <<"U+0476">>) @@ ("U+0479" :> <<"U+0478">>) @@ ("U+047B" :> <<"U+047A">>) @@
     ("U+047D" :> <<"U+047C">>) @@ ("U+047F" :> <<"U+047E">>) @@ ("ҁ" :> <<"Ҁ">>) @@ ("ҋ" :> <<"Ҋ">>) @@
     ("ҍ" :> <<"Ҍ">>) @@ ("ҏ" :> <<"Ҏ">>) @@ ("ґ" :> <<"Ґ">>) @@ ("ғ" :> <<"Ғ">>)) @@
    (("ҕ" :> <<"Ҕ">>) @@ ("җ" :> <<"Җ">>) @@ ("ҙ" :> <<"Ҙ">>) @@ ("қ" :> <<"Қ">>) @@
     ("ҝ" :> <<"Ҝ">>) @@ ("ҟ" :> <<"Ҟ">>) @@ ("ҡ" :> <<"Ҡ">>) @@ ("ң" :> <<"Ң">>) @@
     ("ҥ" :> <<"Ҥ">>) @@ ("ҧ" :> <<"Ҧ">>) @@ ("ҩ" :> <<"Ҩ">>) @@ ("ҫ" :> <<"Ҫ">>) @@
     ("ҭ" :> <<"Ҭ">>) @@ ("ү" :> <<"Ү">>) @@ ("ұ" :> <<"Ұ">>) @@ ("ҳ" :> <<"Ҳ">>) @@
     ("ҵ" :> <<"Ҵ">>) @@ ("ҷ" :> <<"Ҷ">>) @@ ("ҹ" :> <<"Ҹ">>) @@ ("һ" :> <<"Һ">>) @@
     ("ҽ" :> <<"Ҽ">>) @@ ("ҿ" :> <<"Ҿ">>) @@ ("ӂ" :> <<"Ӂ">>) @@ ("ӄ" :> <<"Ӄ">>)) @@
    (("ӆ" :> <<"Ӆ">>) @@ ("ӈ" :> <<"Ӈ">>) @@ ("ӊ" :> <<"Ӊ">>) @@ ("ӌ" :> <<"Ӌ">>) @@
     ("ӎ" :> <<"Ӎ">>) @@ ("ӏ" :> <<"Ӏ">>) @@ ("ӑ" :> <<"Ӑ">>) @@ ("ӓ" :> <<"Ӓ">>) @@
     ("ӕ" :> <<"Ӕ">>) @@ ("ӗ" :> <<"Ӗ">>) @@ ("ә" :> <<"Ә">>) @@ ("ӛ" :> <<"Ӛ">>) @@
     ("ӝ" :> <<"Ӝ">>) @@ ("ӟ" :> <<"Ӟ">>) @@ ("ӡ" :> <<"Ӡ">>) @@ ("ӣ" :> <<"Ӣ">>) @@
     ("ӥ" :> <<"Ӥ">>) @@ ("ӧ" :> <<"Ӧ">>) @@ ("ө" :> <<"Ө">>) @@ ("ӫ" :> <<"Ӫ">>) @@
     ("ӭ" :> <<"Ӭ">>) @@ ("ӯ" :> <<"Ӯ">>) @@ ("ӱ" :> <<"Ӱ">>) @@ ("ӳ" :> <<"Ӳ">>)) @@
    (("ӵ" :> <<"Ӵ">>) @@ ("ӷ" :> <<"Ӷ">>) @@ ("ӹ" :> <<"Ӹ">>) @@ ("ӻ" :> <<"Ӻ">>) @@
     ("ӽ" :> <<"Ӽ">>) @@ ("ӿ" :> <<"Ӿ">>) @@ ("U+0501" :> <<"U+0500">>) @@ ("U+0503" :> <<"U+0502">>) @@
     ("U+0505" :> <<"U+0504">>) @@ ("U+0507" :> <<"U+0506">>) @@ ("U+0509" :> <<"U+0508">>) @@ ("U+050B" :> <<"U+050A">>) @@
     ("U+050D" :> <<"U+050C">>) @@ ("U+050F" :> <<"U+050E">>) @@ ("U+0511" :> <<"U+0510">>) @@ ("U+0513" :> <<"U+0512">>) @@
     ("U+0515" :> <<"U+0514">>) @@ ("U+0517" :> <<"U+0516">>) @@ ("U+0519" :> <<"U+0518">>) @@ ("U+051B" :> <<"U+051A">>) @@
     ("U+051D" :> <<"U+051C">>) @@ ("U+051F" :> <<"U+051E">>) @@ ("U+0521" :> <<"U+0520">>) @@ ("U+0523" :> <<"U+0522">>)) @@
    (("U+0525" :> <<"U+0524">>) @@ ("U+0527" :> <<"U+0526">>) @@ ("U+0529" :> <<"U+0528">>) @@ ("U+052B" :> <<"U+052A">>) @@
     ("U+052D" :> <<"U+052C">>) @@ ("U+052F" :> <<"U+052E">>) @@ ("U+0561" :> <<"U+0531">>) @@ ("U+0562" :> <<"U+0532">>) @@
     ("U+0563" :> <<"U+0533">>) @@ ("U+0564" :> <<"U+0534">>) @@ ("U+0565" :> <<"U+0535">>) @@ ("U+0566" :> <<"U+0536">>) @@
     ("U+0567" :> <<"U+0537">>) @@ ("U+0568" :> <<"U+0538">>) @@ ("U+0569" :> <<"U+0539">>) @@ ("U+056A" :> <<"U+053A">>) @@
     ("U+056B" :> <<"U+053B">>) @@ ("U+056C" :> <<"U+053C">>) @@ ("U+056D" :> <<"U+053D">>) @@ ("U+056E" :> <<"U+053E">>) @@
     ("U+056F" :> <<"U+053F">>) @@ ("U+0570" :> <<"U+0540">>) @@ ("U+0571" :> <<"U+0541">>) @@ ("U+0572" :> <<"U+0542">>)) @@
    (("U+0573" :> <<"U+0543">>) @@ ("U+0574" :> <<"U+0544">>) @@ ("U+0575" :> <<"U+0545">>) @@ ("U+0576" :> <<"U+0546">>) @@
     ("U+0577" :> <<"U+0547">>) @@ ("U+0578" :> <<"U+0548">>) @@ ("U+0579" :> <<"U+0549">>) @@ ("U+057A" :> <<"U+054A">>) @@
     ("U+057B" :> <<"U+054B">>) @@ ("U+057C" :> <<"U+054C">>) @@ ("U+057D" :> <<"U+054D">>) @@ ("U+057E" :> <<"U+054E">>) @@
     ("U+057F" :> <<"U+054F">>) @@ ("ր" :> <<"U+0550">>) @@ ("ց" :> <<"U+0551">>) @@ ("ւ" :> <<"U+0552">>) @@
     ("փ" :> <<"U+0553">>) @@ ("ք" :> <<"U+0554">>) @@ ("օ" :> <<"U+0555">>) @@ ("ֆ" :> <<"U+0556">>) @@
     ("և" :> <<"U+0535", "U+0552">>) @@ ("ა" :> <<"Ა">>) @@ ("ბ" :> <<"Ბ">>) @@ ("გ" :> <<"Გ">>)) @@
    (("დ" :> <<"Დ">>) @@ ("ე" :> <<"Ე">>) @@ ("ვ" :> <<"Ვ">>) @@ ("ზ" :> <<"Ზ">>) @@
     ("თ" :> <<"Თ">>) @@ ("ი" :> <<"Ი">>) @@ ("კ" :> <<"Კ">>) @@ ("ლ" :> <<"Ლ">>) @@
     ("მ" :> <<"Მ">>) @@ ("ნ" :> <<"Ნ">>) @@ ("ო" :> <<"Ო">>) @@ ("პ" :> <<"Პ">>) @@
     ("ჟ" :> <<"Ჟ">>) @@ ("რ" :> <<"Რ">>) @@ ("ს" :> <<"Ს">>) @@ ("ტ" :> <<"Ტ">>) @@
     ("უ" :> <<"Უ">>) @@ ("ფ" :> <<"Ფ">>) @@ ("ქ" :> <<"Ქ">>) @@ ("ღ" :> <<"Ღ">>) @@
     ("ყ" :> <<"Ყ">>) @@ ("შ" :> <<"Შ">>) @@ ("ჩ" :> <<"Ჩ">>) @@ ("ც" :> <<"Ც">>)) @@
    (("ძ" :> <<"Ძ">>) @@ ("წ" :> <<"Წ">>) @@ ("ჭ" :> <<"Ჭ">>) @@ ("ხ" :> <<"Ხ">>) @@
     ("ჯ" :> <<"Ჯ">>) @@ ("ჰ" :> <<"Ჰ">>) @@ ("ჱ" :> <<"Ჱ">>) @@ ("ჲ" :> <<"Ჲ">>) @@
     ("ჳ" :> <<"Ჳ">>) @@ ("ჴ" :> <<"Ჴ">>) @@ ("ჵ" :> <<"Ჵ">>) @@ ("ჶ" :> <<"Ჶ">>) @@
     ("ჷ" :> <<"Ჷ">>) @@ ("ჸ" :> <<"Ჸ">>) @@ ("ჹ" :> <<"Ჹ">>) @@ ("ჺ" :> <<"Ჺ">>) @@
     ("ჽ" :> <<"Ჽ">>) @@ ("ჾ" :> <<"Ჾ">>) @@ ("ჿ" :> <<"Ჿ">>) @@ ("ᏸ" :> <<"Ᏸ">>) @@
     ("ᏹ" :> <<"Ᏹ">>) @@ ("ᏺ" :> <<"Ᏺ">>) @@ ("ᏻ" :> <<"Ᏻ">>) @@ ("ᏼ" :> <<"Ᏼ">>)) @@
    (("ᏽ" :> <<"Ᏽ">>) @@ ("ᲀ" :> <<"U+0412">>) @@ ("ᲁ" :> <<"U+0414">>) @@ ("ᲂ" :> <<"U+041E">>) @@
     ("ᲃ" :> <<"U+0421">>) @@ ("ᲄ" :> <<"U+0422">>) @@ ("ᲅ" :> <<"U+0422">>) @@ ("ᲆ" :> <<"U+042A">>) @@
     ("ᲇ" :> <<"U+0462">>) @@ ("ᲈ" :> <<"U+A64A">>) @@ ("U+1D79" :> <<"U+A77D">>) @@ ("U+1D7D" :> <<"U+2C63">>) @@
     ("ᶎ" :> <<"Ᶎ">>) @@ ("U+1E01" :> <<"U+1E00">>) @@ ("U+1E03" :> <<"U+1E02">>) @@ ("U+1E05" :> <<"U+1E04">>) @@
     ("U+1E07" :> <<"U+1E06">>) @@ ("U+1E09" :> <<"U+1E08">>) @@ ("U+1E0B" :> <<"U+1E0A">>) @@ ("U+1E0D" :> <<"U+1E0C">>) @@
     ("U+1E0F" :> <<"U+1E0E">>) @@ ("U+1E11" :> <<"U+1E10">>) @@ ("U+1E13" :> <<"U+1E12">>) @@ ("U+1E15" :> <<"U+1E14">>)) @@
    (("U+1E17" :> <<"U+1E16">>) @@ ("U+1E19" :> <<"U+1E18">>) @@ ("U+1E1B" :> <<"U+1E1A">>) @@ ("U+1E1D" :> <<"U+1E1C">>) @@
     ("U+1E1F" :> <<"U+1E1E">>) @@ ("U+1E21" :> <<"U+1E20">>) @@ ("U+1E23" :> <<"U+1E22">>) @@ ("U+1E25" :> <<"U+1E24">>) @@
     ("U+1E27" :> <<"U+1E26">>) @@ ("U+1E29" :> <<"U+1E28">>) @@ ("U+1E2B" :> <<"U+1E2A">>) @@ ("U+1E2D" :> <<"U+1E2C">>) @@
     ("U+1E2F" :> <<"U+1E2E">>) @@ ("U+1E31" :> <<"U+1E30">>) @@ ("U+1E33" :> <<"U+1E32">>) @@ ("U+1E35" :> <<"U+1E34">>) @@
     ("U+1E37" :> <<"U+1E36">>) @@ ("U+1E39" :> <<"U+1E38">>) @@ ("U+1E3B" :> <<"U+1E3A">>) @@ ("U+1E3D" :> <<"U+1E3C">>) @@
     ("U+1E3F" :> <<"U+1E3E">>) @@ ("U+1E41" :> <<"U+1E40">>) @@ ("U+1E43" :> <<"U+1E42">>) @@ ("U+1E45" :> <<"U+1E44">>)) @@
    (("U+1E47" :> <<"U+1E46">>) @@ ("U+1E49" :> <<"U+1E48">>) @@ ("U+1E4B" :> <<"U+1E4A">>) @@ ("U+1E4D" :> <<"U+1E4C">>) @@
     ("U+1E4F" :> <<"U+1E4E">>) @@ ("U+1E51" :> <<"U+1E50">>) @@ ("U+1E53" :> <<"U+1E52">>) @@ ("U+1E55" :> <<"U+1E54">>) @@
     ("U+1E57" :> <<"U+1E56">>) @@ ("U+1E59" :> <<"U+1E58">>) @@ ("U+1E5B" :> <<"U+1E5A">>) @@ ("U+1E5D" :> <<"U+1E5C">>) @@
     ("U+1E5F" :> <<"U+1E5E">>) @@ ("U+1E61" :> <<"U+1E60">>) @@ ("U+1E63" :> <<"U+1E62">>) @@ ("U+1E65" :> <<"U+1E64">>) @@
     ("U+1E67" :> <<"U+1E66">>) @@ ("U+1E69" :> <<"U+1E68">>) @@ ("U+1E6B" :> <<"U+1E6A">>) @@ ("U+1E6D" :> <<"U+1E6C">>) @@
     ("U+1E6F" :> <<"U+1E6E">>) @@ ("U+1E71" :> <<"U+1E70">>) @@ ("U+1E73" :> <<"U+1E72">>) @@ ("U+1E75" :> <<"U+1E74">>)) @@
    (("U+1E77" :> <<"U+1E76">>) @@ ("U+1E79" :> <<"U+1E78">>) @@ ("U+1E7B" :> <<"U+1E7A">>) @@ ("U+1E7D" :> <<"U+1E7C">>) @@
     ("U+1E7F" :> <<"U+1E7E">>) @@ ("ẁ" :> <<"Ẁ">>) @@ ("ẃ" :> <<"Ẃ">>) @@ ("ẅ" :> <<"Ẅ">>) @@
     ("ẇ" :> <<"Ẇ">>) @@ ("ẉ" :> <<"Ẉ">>) @@ ("ẋ" :> <<"Ẋ">>) @@ ("ẍ" :> <<"Ẍ">>) @@
     ("ẏ" :> <<"Ẏ">>) @@ ("ẑ" :> <<"Ẑ">>) @@ ("ẓ" :> <<"Ẓ">>) @@ ("ẕ" :> <<"Ẕ">>) @@
     ("ẖ" :> <<"H", "U+0331">>) @@ ("ẗ" :> <<"T", "U+0308">>) @@ ("ẘ" :> <<"W", "U+030A">>) @@ ("ẙ" :> <<"Y", "U+030A">>) @@
     ("ẚ" :> <<"A", "ʾ">>) @@ ("ẛ" :> <<"U+1E60">>) @@ ("ạ" :> <<"Ạ">>) @@ ("ả" :> <<"Ả">>)) @@
    (("ấ" :> <<"Ấ">>) @@ ("ầ" :> <<"Ầ">>) @@ ("ẩ" :> <<"Ẩ">>) @@ ("ẫ" :> <<"Ẫ">>) @@
     ("ậ" :> <<"Ậ">>) @@ ("ắ" :> <<"Ắ">>) @@ ("ằ" :> <<"Ằ">>) @@ ("ẳ" :> <<"Ẳ">>) @@
     ("ẵ" :> <<"Ẵ">>) @@ ("ặ" :> <<"Ặ">>) @@ ("ẹ" :> <<"Ẹ">>) @@ ("ẻ" :> <<"Ẻ">>) @@
     ("ẽ" :> <<"Ẽ">>) @@ ("ế" :> <<"Ế">>) @@ ("ề" :> <<"Ề">>) @@ ("ể" :> <<"Ể">>) @@
     ("ễ" :> <<"Ễ">>) @@ ("ệ" :> <<"Ệ">>) @@ ("ỉ" :> <<"Ỉ">>) @@ ("ị" :> <<"Ị">>) @@
     ("ọ" :> <<"Ọ">>) @@ ("ỏ" :> <<"Ỏ">>) @@ ("ố" :> <<"Ố">>) @@ ("ồ" :> <<"Ồ">>)) @@
    (("ổ" :> <<"Ổ">>) @@ ("ỗ" :> <<"Ỗ">>) @@ ("ộ" :> <<"Ộ">>) @@ ("ớ" :> <<"Ớ">>) @@
     ("ờ" :> <<"Ờ">>) @@ ("ở" :> <<"Ở">>) @@ ("ỡ" :> <<"Ỡ">>) @@ ("ợ" :> <<"Ợ">>) @@
     ("ụ" :> <<"Ụ">>) @@ ("ủ" :> <<"Ủ">>) @@ ("ứ" :> <<"Ứ">>) @@ ("ừ" :> <<"Ừ">>) @@
     ("ử" :> <<"Ử">>) @@ ("ữ" :> <<"Ữ">>) @@ ("ự" :> <<"Ự">>) @@ ("ỳ" :> <<"Ỳ">>) @@
     ("ỵ" :> <<"Ỵ">>) @@ ("ỷ" :> <<"Ỷ">>) @@ ("ỹ" :> <<"Ỹ">>) @@ ("ỻ" :> <<"Ỻ">>) @@
     ("ỽ" :> <<"Ỽ">>) @@ ("ỿ" :> <<"Ỿ">>) @@ ("U+1F00" :> <<"U+1F08">>) @@ ("U+1F01" :> <<"U+1F09">>)) @@
    (("U+1F02" :> <<"U+1F0A">>) @@ ("U+1F03" :> <<"U+1F0B">>) @@ ("U+1F04" :> <<"U+1F0C">>) @@ ("U+1F05" :> <<"U+1F0D">>) @@
     ("U+1F06" :> <<"U+1F0E">>) @@ ("U+1F07" :> <<"U+1F0F">>) @@ ("U+1F10" :> <<"U+1F18">>) @@ ("U+1F11" :> <<"U+1F19">>) @@
     ("U+1F12" :> <<"U+1F1A">>) @@ ("U+1F13" :> <<"U+1F1B">>) @@ ("U+1F14" :> <<"U+1F1C">>) @@ ("U+1F15" :> <<"U+1F1D">>) @@
     ("U+1F20" :> <<"U+1F28">>) @@ ("U+1F21" :> <<"U+1F29">>) @@ ("U+1F22" :> <<"U+1F2A">>) @@ ("U+1F23" :> <<"U+1F2B">>) @@
     ("U+1F24" :> <<"U+1F2C">>) @@ ("U+1F25" :> <<"U+1F2D">>) @@ ("U+1F26" :> <<"U+1F2E">>) @@ ("U+1F27" :> <<"U+1F2F">>) @@
     ("U+1F30" :> <<"U+1F38">>) @@ ("U+1F31" :> <<"U+1F39">>) @@ ("U+1F32" :> <<"U+1F3A">>) @@ ("U+1F33" :> <<"U+1F3B">>)) @@
    (("U+1F34" :> <<"U+1F3C">>) @@ ("U+1F35" :> <<"U+1F3D">>) @@ ("U+1F36" :> <<"U+1F3E">>) @@ ("U+1F37" :> <<"U+1F3F">>) @@
     ("U+1F40" :> <<"U+1F48">>) @@ ("U+1F41" :> <<"U+1F49">>) @@ ("U+1F42" :> <<"U+1F4A">>) @@ ("U+1F43" :> <<"U+1F4B">>) @@
     ("U+1F44" :> <<"U+1F4C">>) @@ ("U+1F45" :> <<"U+1F4D">>) @@ ("U+1F50" :> <<"Υ", "U+0313">>) @@ ("U+1F51" :> <<"U+1F59">>) @@
     ("U+1F52" :> <<"Υ", "U+0313", "U+0300">>) @@ ("U+1F53" :> <<"U+1F5B">>) @@ ("U+1F54" :> <<"Υ", "U+0313", "U+0301">>) @@ ("U+1F55" :> <<"U+1F5D">>) @@
     ("U+1F56" :> <<"Υ", "U+0313", "U+0342">>) @@ ("U+1F57" :> <<"U+1F5F">>) @@ ("U+1F60" :> <<"U+1F68">>) @@ ("U+1F61" :> <<"U+1F69">>) @@
     ("U+1F62" :> <<"U+1F6A">>) @@ ("U+1F63" :> <<"U+1F6B">>) @@ ("U+1F64" :> <<"U+1F6C">>) @@ ("U+1F65" :> <<"U+1F6D">>)) @@
    (("U+1F66" :> <<"U+1F6E">>) @@ ("U+1F67" :> <<"U+1F6F">>) @@ ("U+1F70" :> <<"Ὰ">>) @@ ("U+1F71" :> <<"Ά">>) @@
     ("U+1F72" :> <<"Ὲ">>) @@ ("U+1F73" :> <<"Έ">>) @@ ("U+1F74" :> <<"Ὴ">>) @@ ("U+1F75" :> <<"Ή">>) @@
     ("U+1F76" :> <<"Ὶ">>) @@ ("U+1F77" :> <<"Ί">>) @@ ("U+1F78" :> <<"Ὸ">>) @@ ("U+1F79" :> <<"Ό">>) @@
     ("U+1F7A" :> <<"Ὺ">>) @@ ("U+1F7B" :> <<"Ύ">>) @@ ("U+1F7C" :> <<"Ὼ">>) @@ ("U+1F7D" :> <<"Ώ">>) @@
     ("ᾀ" :> <<"U+1F08", "Ι">>) @@ ("ᾁ" :> <<"U+1F09", "Ι">>) @@ ("ᾂ" :> <<"U+1F0A", "Ι">>) @@ ("ᾃ" :> <<"U+1F0B", "Ι">>) @@
     ("ᾄ" :> <<"U+1F0C", "Ι">>) @@ ("ᾅ" :> <<"U+1F0D", "Ι">>) @@ ("ᾆ" :> <<"U+1F0E", "Ι">>) @@ ("ᾇ" :> <<"U+1F0F", "Ι">>)) @@
    (("ᾈ" :> <<"U+1F08", "Ι">>) @@ ("ᾉ" :> <<"U+1F09", "Ι">>) @@ ("ᾊ" :> <<"U+1F0A", "Ι">>) @@ ("ᾋ" :> <<"U+1F0B", "Ι">>) @@
     ("ᾌ" :> <<"U+1F0C", "Ι">>) @@ ("ᾍ" :> <<"U+1F0D", "Ι">>) @@ ("ᾎ" :> <<"U+1F0E", "Ι">>) @@ ("ᾏ" :> <<"U+1F0F", "Ι">>) @@
     ("ᾐ" :> <<"U+1F28", "Ι">>) @@ ("ᾑ" :> <<"U+1F29", "Ι">>) @@ ("ᾒ" :> <<"U+1F2A", "Ι">>) @@ ("ᾓ" :> <<"U+1F2B", "Ι">>) @@
     ("ᾔ" :> <<"U+1F2C", "Ι">>) @@ ("ᾕ" :> <<"U+1F2D", "Ι">>) @@ ("ᾖ" :> <<"U+1F2E", "Ι">>) @@ ("ᾗ" :> <<"U+1F2F", "Ι">>) @@
     ("ᾘ" :> <<"U+1F28", "Ι">>) @@ ("ᾙ" :> <<"U+1F29", "Ι">>) @@ ("ᾚ" :> <<"U+1F2A", "Ι">>) @@ ("ᾛ" :> <<"U+1F2B", "Ι">>) @@
     ("ᾜ" :> <<"U+1F2C", "Ι">>) @@ ("ᾝ" :> <<"U+1F2D", "Ι">>) @@ ("ᾞ" :> <<"U+1F2E", "Ι">>) @@ ("ᾟ" :> <<"U+1F2F", "Ι">>)) @@
    (("ᾠ" :> <<"U+1F68", "Ι">>) @@ ("ᾡ" :> <<"U+1F69", "Ι">>) @@ ("ᾢ" :> <<"U+1F6A", "Ι">>) @@ ("ᾣ" :> <<"U+1F6B", "Ι">>) @@
     ("ᾤ" :> <<"U+1F6C", "Ι">>) @@ ("ᾥ" :> <<"U+1F6D", "Ι">>) @@ ("ᾦ" :> <<"U+1F6E", "Ι">>) @@ ("ᾧ" :> <<"U+1F6F", "Ι">>) @@
     ("ᾨ" :> <<"U+1F68", "Ι">>) @@ ("ᾩ" :> <<"U+1F69", "Ι">>) @@ ("ᾪ" :> <<"U+1F6A", "Ι">>) @@ ("ᾫ" :> <<"U+1F6B", "Ι">>) @@
     ("ᾬ" :> <<"U+1F6C", "Ι">>) @@ ("ᾭ" :> <<"U+1F6D", "Ι">>) @@ ("ᾮ" :> <<"U+1F6E", "Ι">>) @@ ("ᾯ" :> <<"U+1F6F", "Ι">>) @@
     ("ᾰ" :> <<"Ᾰ">>) @@ ("ᾱ" :> <<"Ᾱ">>) @@ ("ᾲ" :> <<"Ὰ", "Ι">>) @@ ("ᾳ" :> <<"Α", "Ι">>) @@
     ("ᾴ" :> <<"Ά", "Ι">>) @@ ("ᾶ" :> <<"Α", "U+0342">>) @@ ("ᾷ" :> <<"Α", "U+0342", "Ι">>) @@ ("ᾼ" :> <<"Α", "Ι">>)) @@
    (("ι" :> <<"Ι">>) @@ ("ῂ" :> <<"Ὴ", "Ι">>) @@ ("ῃ" :> <<"Η", "Ι">>) @@ ("ῄ" :> <<"Ή", "Ι">>) @@
     ("ῆ" :> <<"Η", "U+0342">>) @@ ("ῇ" :> <<"Η", "U+0342", "Ι">>) @@ ("ῌ" :> <<"Η", "Ι">>) @@ ("ῐ" :> <<"Ῐ">>) @@
     ("ῑ" :> <<"Ῑ">>) @@ ("ῒ" :> <<"Ι", "U+0308", "U+0300">>) @@ ("ΐ" :> <<"Ι", "U+0308", "U+0301">>) @@ ("ῖ" :> <<"Ι", "U+0342">>) @@
     ("ῗ" :> <<"Ι", "U+0308", "U+0342">>) @@ ("ῠ" :> <<"Ῠ">>) @@ ("ῡ" :> <<"Ῡ">>) @@ ("ῢ" :> <<"Υ", "U+0308", "U+0300">>) @@
     ("ΰ" :> <<"Υ", "U+0308", "U+0301">>) @@ ("ῤ" :> <<"Ρ", "U+0313">>) @@ ("ῥ" :> <<"Ῥ">>) @@ ("ῦ" :> <<"Υ", "U+0342">>) @@
     ("ῧ" :> <<"Υ", "U+0308", "U+0342">>) @@ ("ῲ" :> <<"Ὼ", "Ι">>) @@ ("ῳ" :> <<"Ω", "Ι">>) @@ ("ῴ" :> <<"Ώ", "Ι">>)) @@
    (("ῶ" :> <<"Ω", "U+0342">>) @@ ("ῷ" :> <<"Ω", "U+0342", "Ι">>) @@ ("ῼ" :> <<"Ω", "Ι">>) @@ ("U+214E" :> <<"U+2132">>) @@
     ("U+2170" :> <<"U+2160">>) @@ ("U+2171" :> <<"U+2161">>) @@ ("U+2172" :> <<"U+2162">>) @@ ("U+2173" :> <<"U+2163">>) @@
     ("U+2174" :> <<"U+2164">>) @@ ("U+2175" :> <<"U+2165">>) @@ ("U+2176" :> <<"U+2166">>) @@ ("U+2177" :> <<"U+2167">>) @@
     ("U+2178" :> <<"U+2168">>) @@ ("U+2179" :> <<"U+2169">>) @@ ("U+217A" :> <<"U+216A">>) @@ ("U+217B" :> <<"U+216B">>) @@
     ("U+217C" :> <<"U+216C">>) @@ ("U+217D" :> <<"U+216D">>) @@ ("U+217E" :> <<"U+216E">>) @@ ("U+217F" :> <<"U+216F">>) @@
     ("ↄ" :> <<"Ↄ">>) @@ ("ⓐ" :> <<"Ⓐ">>) @@ ("ⓑ" :> <<"Ⓑ">>) @@ ("ⓒ" :> <<"Ⓒ">>)) @@
    (("ⓓ" :> <<"Ⓓ">>) @@ ("ⓔ" :> <<"Ⓔ">>) @@ ("ⓕ" :> <<"Ⓕ">>) @@ ("ⓖ" :> <<"Ⓖ">>) @@
     ("ⓗ" :> <<"Ⓗ">>) @@ ("ⓘ" :> <<"Ⓘ">>) @@ ("ⓙ" :> <<"Ⓙ">>) @@ ("ⓚ" :> <<"Ⓚ">>) @@
     ("ⓛ" :> <<"Ⓛ">>) @@ ("ⓜ" :> <<"Ⓜ">>) @@ ("ⓝ" :> <<"Ⓝ">>) @@ ("ⓞ" :> <<"Ⓞ">>) @@
     ("ⓟ" :> <<"Ⓟ">>) @@ ("ⓠ" :> <<"Ⓠ">>) @@ ("ⓡ" :> <<"Ⓡ">>) @@ ("ⓢ" :> <<"Ⓢ">>) @@
     ("ⓣ" :> <<"Ⓣ">>) @@ ("ⓤ" :> <<"Ⓤ">>) @@ ("ⓥ" :> <<"Ⓥ">>) @@ ("ⓦ" :> <<"Ⓦ">>) @@
     ("ⓧ" :> <<"Ⓧ">>) @@ ("ⓨ" :> <<"Ⓨ">>) @@ ("ⓩ" :> <<"Ⓩ">>) @@ ("U+2C30" :> <<"U+2C00">>)) @@
    (("U+2C31" :> <<"U+2C01">>) @@ ("U+2C32" :> <<"U+2C02">>) @@ ("U+2C33" :> <<"U+2C03">>) @@ ("U+2C34" :> <<"U+2C04">>) @@
     ("U+2C35" :> <<"U+2C05">>) @@ ("U+2C36" :> <<"U+2C06">>) @@ ("U+2C37" :> <<"U+2C07">>) @@ ("U+2C38" :> <<"U+2C08">>) @@
     ("U+2C39" :> <<"U+2C09">>) @@ ("U+2C3A" :> <<"U+2C0A">>) @@ ("U+2C3B" :> <<"U+2C0B">>) @@ ("U+2C3C" :> <<"U+2C0C">>) @@
     ("U+2C3D" :> <<"U+2C0D">>) @@ ("U+2C3E" :> <<"U+2C0E">>) @@ ("U+2C3F" :> <<"U+2C0F">>) @@ ("U+2C40" :> <<"U+2C10">>) @@
     ("U+2C41" :> <<"U+2C11">>) @@ ("U+2C42" :> <<"U+2C12">>) @@ ("U+2C43" :> <<"U+2C13">>) @@ ("U+2C44" :> <<"U+2C14">>) @@
     ("U+2C45" :> <<"U+2C15">>) @@ ("U+2C46" :> <<"U+2C16">>) @@ ("U+2C47" :> <<"U+2C17">>) @@ ("U+2C48" :> <<"U+2C18">>)) @@
    (("U+2C49" :> <<"U+2C19">>) @@ ("U+2C4A" :> <<"U+2C1A">>) @@ ("U+2C4B" :> <<"U+2C1B">>) @@ ("U+2C4C" :> <<"U+2C1C">>) @@
     ("U+2C4D" :> <<"U+2C1D">>) @@ ("U+2C4E" :> <<"U+2C1E">>) @@ ("U+2C4F" :> <<"U+2C1F">>) @@ ("U+2C50" :> <<"U+2C20">>) @@
     ("U+2C51" :> <<"U+2C21">>) @@ ("U+2C52" :> <<"U+2C22">>) @@ ("U+2C53" :> <<"U+2C23">>) @@ ("U+2C54" :> <<"U+2C24">>) @@
     ("U+2C55" :> <<"U+2C25">>) @@ ("U+2C56" :> <<"U+2C26">>) @@ ("U+2C57" :> <<"U+2C27">>) @@ ("U+2C58" :> <<"U+2C28">>) @@
     ("U+2C59" :> <<"U+2C29">>) @@ ("U+2C5A" :> <<"U+2C2A">>) @@ ("U+2C5B" :> <<"U+2C2B">>) @@ ("U+2C5C" :> <<"U+2C2C">>) @@
     ("U+2C5D" :> <<"U+2C2D">>) @@ ("U+2C5E" :> <<"U+2C2E">>) @@ ("U+2C5F" :> <<"U+2C2F">>) @@ ("U+2C61" :> <<"U+2C60">>)) @@
    (("U+2C65" :> <<"U+023A">>) @@ ("U+2C66" :> <<"U+023E">>) @@ ("U+2C68" :> <<"U+2C67">>) @@ ("U+2C6A" :> <<"U+2C69">>) @@
     ("U+2C6C" :> <<"U+2C6B">>) @@ ("U+2C73" :> <<"U+2C72">>) @@ ("U+2C76" :> <<"U+2C75">>) @@ ("ⲁ" :> <<"Ⲁ">>) @@
     ("ⲃ" :> <<"Ⲃ">>) @@ ("ⲅ" :> <<"Ⲅ">>) @@ ("ⲇ" :> <<"Ⲇ">>) @@ ("ⲉ" :> <<"Ⲉ">>) @@
     ("ⲋ" :> <<"Ⲋ">>) @@ ("ⲍ" :> <<"Ⲍ">>) @@ ("ⲏ" :> <<"Ⲏ">>) @@ ("ⲑ" :> <<"Ⲑ">>) @@
     ("ⲓ" :> <<"Ⲓ">>) @@ ("ⲕ" :> <<"Ⲕ">>) @@ ("ⲗ" :> <<"Ⲗ">>) @@ ("ⲙ" :> <<"Ⲙ">>) @@
     ("ⲛ" :> <<"Ⲛ">>) @@ ("ⲝ" :> <<"Ⲝ">>) @@ ("ⲟ" :> <<"Ⲟ">>) @@ ("ⲡ" :> <<"Ⲡ">>)) @@
    (("ⲣ" :> <<"Ⲣ">>) @@ ("ⲥ" :> <<"Ⲥ">>) @@ ("ⲧ" :> <<"Ⲧ">>) @@ ("ⲩ" :> <<"Ⲩ">>) @@
     ("ⲫ" :> <<"Ⲫ">>) @@ ("ⲭ" :> <<"Ⲭ">>) @@ ("ⲯ" :> <<"Ⲯ">>) @@ ("ⲱ" :> <<"Ⲱ">>) @@
     ("ⲳ" :> <<"Ⲳ">>) @@ ("ⲵ" :> <<"Ⲵ">>) @@ ("ⲷ" :> <<"Ⲷ">>) @@ ("ⲹ" :> <<"Ⲹ">>) @@
     ("ⲻ" :> <<"Ⲻ">>) @@ ("ⲽ" :> <<"Ⲽ">>) @@ ("ⲿ" :> <<"Ⲿ">>) @@ ("ⳁ" :> <<"Ⳁ">>) @@
     ("ⳃ" :> <<"Ⳃ">>) @@ ("ⳅ" :> <<"Ⳅ">>) @@ ("ⳇ" :> <<"Ⳇ">>) @@ ("ⳉ" :> <<"Ⳉ">>) @@
     ("ⳋ" :> <<"Ⳋ">>) @@ ("ⳍ" :> <<"Ⳍ">>) @@ ("ⳏ" :> <<"Ⳏ">>) @@ ("ⳑ" :> <<"Ⳑ">>)) @@
    (("ⳓ" :> <<"Ⳓ">>) @@ ("ⳕ" :> <<"Ⳕ">>) @@ ("ⳗ" :> <<"Ⳗ">>) @@ ("ⳙ" :> <<"Ⳙ">>) @@
     ("ⳛ" :> <<"Ⳛ">>) @@ ("ⳝ" :> <<"Ⳝ">>) @@ ("ⳟ" :> <<"Ⳟ">>) @@ ("ⳡ" :> <<"Ⳡ">>) @@
     ("ⳣ" :> <<"Ⳣ">>) @@ ("ⳬ" :> <<"Ⳬ">>) @@ ("ⳮ" :> <<"Ⳮ">>) @@ ("ⳳ" :> <<"Ⳳ">>) @@
     ("U+2D00" :> <<"Ⴀ">>) @@ ("U+2D01" :> <<"Ⴁ">>) @@ ("U+2D02" :> <<"Ⴂ">>) @@ ("U+2D03" :> <<"Ⴃ">>) @@
     ("U+2D04" :> <<"Ⴄ">>) @@ ("U+2D05" :> <<"Ⴅ">>) @@ ("U+2D06" :> <<"Ⴆ">>) @@ ("U+2D07" :> <<"Ⴇ">>) @@
     ("U+2D08" :> <<"Ⴈ">>) @@ ("U+2D09" :> <<"Ⴉ">>) @@ ("U+2D0A" :> <<"Ⴊ">>) @@ ("U+2D0B" :> <<"Ⴋ">>)) @@
    (("U+2D0C" :> <<"Ⴌ">>) @@ ("U+2D0D" :> <<"Ⴍ">>) @@ ("U+2D0E" :> <<"Ⴎ">>) @@ ("U+2D0F" :> <<"Ⴏ">>) @@
     ("U+2D10" :> <<"Ⴐ">>) @@ ("U+2D11" :> <<"Ⴑ">>) @@ ("U+2D12" :> <<"Ⴒ">>) @@ ("U+2D13" :> <<"Ⴓ">>) @@
     ("U+2D14" :> <<"Ⴔ">>) @@ ("U+2D15" :> <<"Ⴕ">>) @@ ("U+2D16" :> <<"Ⴖ">>) @@ ("U+2D17" :> <<"Ⴗ">>) @@
     ("U+2D18" :> <<"Ⴘ">>) @@ ("U+2D19" :> <<"Ⴙ">>) @@ ("U+2D1A" :> <<"Ⴚ">>) @@ ("U+2D1B" :> <<"Ⴛ">>) @@
     ("U+2D1C" :> <<"Ⴜ">>) @@ ("U+2D1D" :> <<"Ⴝ">>) @@ ("U+2D1E" :> <<"Ⴞ">>) @@ ("U+2D1F" :> <<"Ⴟ">>) @@
     ("U+2D20" :> <<"Ⴠ">>) @@ ("U+2D21" :> <<"Ⴡ">>) @@ ("U+2D22" :> <<"Ⴢ">>) @@ ("U+2D23" :> <<"Ⴣ">>)) @@
    (("U+2D24" :> <<"Ⴤ">>) @@ ("U+2D25" :> <<"Ⴥ">>) @@ ("U+2D27" :> <<"Ⴧ">>) @@ ("U+2D2D" :> <<"Ⴭ">>) @@
     ("U+A641" :> <<"U+A640">>) @@ ("U+A643" :> <<"U+A642">>) @@ ("U+A645" :> <<"U+A644">>) @@ ("U+A647" :> <<"U+A646">>) @@
     ("U+A649" :> <<"U+A648">>) @@ ("U+A64B" :> <<"U+A64A">>) @@ ("U+A64D" :> <<"U+A64C">>) @@ ("U+A64F" :> <<"U+A64E">>) @@
     ("U+A651" :> <<"U+A650">>) @@ ("U+A653" :> <<"U+A652">>) @@ ("U+A655" :> <<"U+A654">>) @@ ("U+A657" :> <<"U+A656">>) @@
     ("U+A659" :> <<"U+A658">>) @@ ("U+A65B" :> <<"U+A65A">>) @@ ("U+A65D" :> <<"U+A65C">>) @@ ("U+A65F" :> <<"U+A65E">>) @@
     ("U+A661" :> <<"U+A660">>) @@ ("U+A663" :> <<"U+A662">>) @@ ("U+A665" :> <<"U+A664">>) @@ ("U+A667" :> <<"U+A666">>)) @@
    (("U+A669" :> <<"U+A668">>) @@ ("U+A66B" :> <<"U+A66A">>) @@ ("U+A66D" :> <<"U+A66C">>) @@ ("ꚁ" :> <<"Ꚁ">>) @@
     ("ꚃ" :> <<"Ꚃ">>) @@ ("ꚅ" :> <<"Ꚅ">>) @@ ("ꚇ" :> <<"Ꚇ">>) @@ ("ꚉ" :> <<"Ꚉ">>) @@
     ("ꚋ" :> <<"Ꚋ">>) @@ ("ꚍ" :> <<"Ꚍ">>) @@ ("ꚏ" :> <<"Ꚏ">>) @@ ("ꚑ" :> <<"Ꚑ">>) @@
     ("ꚓ" :> <<"Ꚓ">>) @@ ("ꚕ" :> <<"Ꚕ">>) @@ ("ꚗ" :> <<"Ꚗ">>) @@ ("ꚙ" :> <<"Ꚙ">>) @@
     ("ꚛ" :> <<"Ꚛ">>) @@ ("U+A723" :> <<"U+A722">>) @@ ("U+A725" :> <<"U+A724">>) @@ ("U+A727" :> <<"U+A726">>) @@
     ("U+A729" :> <<"U+A728">>) @@ ("U+A72B" :> <<"U+A72A">>) @@ ("U+A72D" :> <<"U+A72C">>) @@ ("U+A72F" :> <<"U+A72E">>)) @@
    (("U+A733" :> <<"U+A732">>) @@ ("U+A735" :> <<"U+A734">>) @@ ("U+A737" :> <<"U+A736">>) @@ ("U+A739" :> <<"U+A738">>) @@
     ("U+A73B" :> <<"U+A73A">>) @@ ("U+A73D" :> <<"U+A73C">>) @@ ("U+A73F" :> <<"U+A73E">>) @@ ("U+A741" :> <<"U+A740">>) @@
     ("U+A743" :> <<"U+A742">>) @@ ("U+A745" :> <<"U+A744">>) @@ ("U+A747" :> <<"U+A746">>) @@ ("U+A749" :> <<"U+A748">>) @@
     ("U+A74B" :> <<"U+A74A">>) @@ ("U+A74D" :> <<"U+A74C">>) @@ ("U+A74F" :> <<"U+A74E">>) @@ ("U+A751" :> <<"U+A750">>) @@
     ("U+A753" :> <<"U+A752">>) @@ ("U+A755" :> <<"U+A754">>) @@ ("U+A757" :> <<"U+A756">>) @@ ("U+A759" :> <<"U+A758">>) @@
     ("U+A75B" :> <<"U+A75A">>) @@ ("U+A75D" :> <<"U+A75C">>) @@ ("U+A75F" :> <<"U+A75E">>) @@ ("U+A761" :> <<"U+A760">>)) @@
    (("U+A763" :> <<"U+A762">>) @@ ("U+A765" :> <<"U+A764">>) @@ ("U+A767" :> <<"U+A766">>) @@ ("U+A769" :> <<"U+A768">>) @@
     ("U+A76B" :> <<"U+A76A">>) @@ ("U+A76D" :> <<"U+A76C">>) @@ ("U+A76F" :> <<"U+A76E">>) @@ ("U+A77A" :> <<"U+A779">>) @@
     ("U+A77C" :> <<"U+A77B">>) @@ ("U+A77F" :> <<"U+A77E">>) @@ ("ꞁ" :> <<"Ꞁ">>) @@ ("ꞃ" :> <<"Ꞃ">>) @@
     ("ꞅ" :> <<"Ꞅ">>) @@ ("ꞇ" :> <<"Ꞇ">>) @@ ("ꞌ" :> <<"Ꞌ">>) @@ ("ꞑ" :> <<"Ꞑ">>) @@
     ("ꞓ" :> <<"Ꞓ">>) @@ ("ꞔ" :> <<"Ꞔ">>) @@ ("ꞗ" :> <<"Ꞗ">>) @@ ("ꞙ" :> <<"Ꞙ">>) @@
     ("ꞛ" :> <<"Ꞛ">>) @@ ("ꞝ" :> <<"Ꞝ">>) @@ ("ꞟ" :> <<"Ꞟ">>) @@ ("ꞡ" :> <<"Ꞡ">>)) @@
    (("ꞣ" :> <<"Ꞣ">>) @@ ("ꞥ" :> <<"Ꞥ">>) @@ ("ꞧ" :> <<"Ꞧ">>) @@ ("ꞩ" :> <<"Ꞩ">>) @@
     ("ꞵ" :> <<"Ꞵ">>) @@ ("ꞷ" :> <<"Ꞷ">>) @@ ("ꞹ" :> <<"Ꞹ">>) @@ ("ꞻ" :> <<"Ꞻ">>) @@
     ("ꞽ" :> <<"Ꞽ">>) @@ ("ꞿ" :> <<"Ꞿ">>) @@ ("ꟁ" :> <<"Ꟁ">>) @@ ("ꟃ" :> <<"Ꟃ">>) @@
     ("ꟈ" :> <<"Ꟈ">>) @@ ("ꟊ" :> <<"Ꟊ">>) @@ ("ꟑ" :> <<"Ꟑ">>) @@ ("ꟗ" :> <<"Ꟗ">>) @@
     ("ꟙ" :> <<"Ꟙ">>) @@ ("ꟶ" :> <<"Ꟶ">>) @@ ("U+AB53" :> <<"Ꭓ">>) @@ ("U+AB70" :> <<"Ꭰ">>) @@
     ("U+AB71" :> <<"Ꭱ">>) @@ ("U+AB72" :> <<"Ꭲ">>) @@ ("U+AB73" :> <<"Ꭳ">>) @@ ("U+AB74" :> <<"Ꭴ">>)) @@
    (("U+AB75" :> <<"Ꭵ">>) @@ ("U+AB76" :> <<"Ꭶ">>) @@ ("U+AB77" :> <<"Ꭷ">>) @@ ("U+AB78" :> <<"Ꭸ">>) @@
     ("U+AB79" :> <<"Ꭹ">>) @@ ("U+AB7A" :> <<"Ꭺ">>) @@ ("U+AB7B" :> <<"Ꭻ">>) @@ ("U+AB7C" :> <<"Ꭼ">>) @@
     ("U+AB7D" :> <<"Ꭽ">>) @@ ("U+AB7E" :> <<"Ꭾ">>) @@ ("U+AB7F" :> <<"Ꭿ">>) @@ ("ꮀ" :> <<"Ꮀ">>) @@
     ("ꮁ" :> <<"Ꮁ">>) @@ ("ꮂ" :> <<"Ꮂ">>) @@ ("ꮃ" :> <<"Ꮃ">>) @@ ("ꮄ" :> <<"Ꮄ">>) @@
     ("ꮅ" :> <<"Ꮅ">>) @@ ("ꮆ" :> <<"Ꮆ">>) @@ ("ꮇ" :> <<"Ꮇ">>) @@ ("ꮈ" :> <<"Ꮈ">>) @@
     ("ꮉ" :> <<"Ꮉ">>) @@ ("ꮊ" :> <<"Ꮊ">>) @@ ("ꮋ" :> <<"Ꮋ">>) @@ ("ꮌ" :> <<"Ꮌ">>)) @@
    (("ꮍ" :> <<"Ꮍ">>) @@ ("ꮎ" :> <<"Ꮎ">>) @@ ("ꮏ" :> <<"Ꮏ">>) @@ ("ꮐ" :> <<"Ꮐ">>) @@
     ("ꮑ" :> <<"Ꮑ">>) @@ ("ꮒ" :> <<"Ꮒ">>) @@ ("ꮓ" :> <<"Ꮓ">>) @@ ("ꮔ" :> <<"Ꮔ">>) @@
     ("ꮕ" :> <<"Ꮕ">>) @@ ("ꮖ" :> <<"Ꮖ">>) @@ ("ꮗ" :> <<"Ꮗ">>) @@ ("ꮘ" :> <<"Ꮘ">>) @@
     ("ꮙ" :> <<"Ꮙ">>) @@ ("ꮚ" :> <<"Ꮚ">>) @@ ("ꮛ" :> <<"Ꮛ">>) @@ ("ꮜ" :> <<"Ꮜ">>) @@
     ("ꮝ" :> <<"Ꮝ">>) @@ ("ꮞ" :> <<"Ꮞ">>) @@ ("ꮟ" :> <<"Ꮟ">>) @@ ("ꮠ" :> <<"Ꮠ">>) @@
     ("ꮡ" :> <<"Ꮡ">>) @@ ("ꮢ" :> <<"Ꮢ">>) @@ ("ꮣ" :> <<"Ꮣ">>) @@ ("ꮤ" :> <<"Ꮤ">>)) @@
    (("ꮥ" :> <<"Ꮥ">>) @@ ("ꮦ" :> <<"Ꮦ">>) @@ ("ꮧ" :> <<"Ꮧ">>) @@ ("ꮨ" :> <<"Ꮨ">>) @@
     ("ꮩ" :> <<"Ꮩ">>) @@ ("ꮪ" :> <<"Ꮪ">>) @@ ("ꮫ" :> <<"Ꮫ">>) @@ ("ꮬ" :> <<"Ꮬ">>) @@
     ("ꮭ" :> <<"Ꮭ">>) @@ ("ꮮ" :> <<"Ꮮ">>) @@ ("ꮯ" :> <<"Ꮯ">>) @@ ("ꮰ" :> <<"Ꮰ">>) @@
     ("ꮱ" :> <<"Ꮱ">>) @@ ("ꮲ" :> <<"Ꮲ">>) @@ ("ꮳ" :> <<"Ꮳ">>) @@ ("ꮴ" :> <<"Ꮴ">>) @@
     ("ꮵ" :> <<"Ꮵ">>) @@ ("ꮶ" :> <<"Ꮶ">>) @@ ("ꮷ" :> <<"Ꮷ">>) @@ ("ꮸ" :> <<"Ꮸ">>) @@
     ("ꮹ" :> <<"Ꮹ">>) @@ ("ꮺ" :> <<"Ꮺ">>) @@ ("ꮻ" :> <<"Ꮻ">>) @@ ("ꮼ" :> <<"Ꮼ">>)) @@
    (("ꮽ" :> <<"Ꮽ">>) @@ ("ꮾ" :> <<"Ꮾ">>) @@ ("ꮿ" :> <<"Ꮿ">>) @@ ("U+FB00" :> <<"F", "F">>) @@
     ("U+FB01" :> <<"F", "I">>) @@ ("U+FB02" :> <<"F", "L">>) @@ ("U+FB03" :> <<"F", "F", "I">>) @@ ("U+FB04" :> <<"F", "F", "L">>) @@
     ("U+FB05" :> <<"S", "T">>) @@ ("U+FB06" :> <<"S", "T">>) @@ ("U+FB13" :> <<"U+0544", "U+0546">>) @@ ("U+FB14" :> <<"U+0544", "U+0535">>) @@
     ("U+FB15" :> <<"U+0544", "U+053B">>) @@ ("U+FB16" :> <<"U+054E", "U+0546">>) @@ ("U+FB17" :> <<"U+0544", "U+053D">>) @@ ("U+FF41" :> <<"U+FF21">>) @@
     ("U+FF42" :> <<"U+FF22">>) @@ ("U+FF43" :> <<"U+FF23">>) @@ ("U+FF44" :> <<"U+FF24">>) @@ ("U+FF45" :> <<"U+FF25">>) @@
     ("U+FF46" :> <<"U+FF26">>) @@ ("U+FF47" :> <<"U+FF27">>) @@ ("U+FF48" :> <<"U+FF28">>) @@ ("U+FF49" :> <<"U+FF29">>)) @@
    (("U+FF4A" :> <<"U+FF2A">>) @@ ("U+FF4B" :> <<"U+FF2B">>) @@ ("U+FF4C" :> <<"U+FF2C">>) @@ ("U+FF4D" :> <<"U+FF2D">>) @@
     ("U+FF4E" :> <<"U+FF2E">>) @@ ("U+FF4F" :> <<"U+FF2F">>) @@ ("U+FF50" :> <<"U+FF30">>) @@ ("U+FF51" :> <<"U+FF31">>) @@
     ("U+FF52" :> <<"U+FF32">>) @@ ("U+FF53" :> <<"U+FF33">>) @@ ("U+FF54" :> <<"U+FF34">>) @@ ("U+FF55" :> <<"U+FF35">>) @@
     ("U+FF56" :> <<"U+FF36">>) @@ ("U+FF57" :> <<"U+FF37">>) @@ ("U+FF58" :> <<"U+FF38">>) @@ ("U+FF59" :> <<"U+FF39">>) @@
     ("U+FF5A" :> <<"U+FF3A">>) @@ ("U+10428" :> <<"U+10400">>) @@ ("U+10429" :> <<"U+10401">>) @@ ("U+1042A" :> <<"U+10402">>) @@
     ("U+1042B" :> <<"U+10403">>) @@ ("U+1042C" :> <<"U+10404">>) @@ ("U+1042D" :> <<"U+10405">>) @@ ("U+1042E" :> <<"U+10406">>)) @@
    (("U+1042F" :> <<"U+10407">>) @@ ("U+10430" :> <<"U+10408">>) @@ ("U+10431" :> <<"U+10409">>) @@ ("U+10432" :> <<"U+1040A">>) @@
     ("U+10433" :> <<"U+1040B">>) @@ ("U+10434" :> <<"U+1040C">>) @@ ("U+10435" :> <<"U+1040D">>) @@ ("U+10436" :> <<"U+1040E">>) @@
     ("U+10437" :> <<"U+1040F">>) @@ ("U+10438" :> <<"U+10410">>) @@ ("U+10439" :> <<"U+10411">>) @@ ("U+1043A" :> <<"U+10412">>) @@
     ("U+1043B" :> <<"U+10413">>) @@ ("U+1043C" :> <<"U+10414">>) @@ ("U+1043D" :> <<"U+10415">>) @@ ("U+1043E" :> <<"U+10416">>) @@
     ("U+1043F" :> <<"U+10417">>) @@ ("U+10440" :> <<"U+10418">>) @@ ("U+10441" :> <<"U+10419">>) @@ ("U+10442" :> <<"U+1041A">>) @@
     ("U+10443" :> <<"U+1041B">>) @@ ("U+10444" :> <<"U+1041C">>) @@ ("U+10445" :> <<"U+1041D">>) @@ ("U+10446" :> <<"U+1041E">>)) @@
    (("U+10447" :> <<"U+1041F">>) @@ ("U+10448" :> <<"U+10420">>) @@ ("U+10449" :> <<"U+10421">>) @@ ("U+1044A" :> <<"U+10422">>) @@
     ("U+1044B" :> <<"U+10423">>) @@ ("U+1044C" :> <<"U+10424">>) @@ ("U+1044D" :> <<"U+10425">>) @@ ("U+1044E" :> <<"U+10426">>) @@
     ("U+1044F" :> <<"U+10427">>) @@ ("U+104D8" :> <<"U+104B0">>) @@ ("U+104D9" :> <<"U+104B1">>) @@ ("U+104DA" :> <<"U+104B2">>) @@
     ("U+104DB" :> <<"U+104B3">>) @@ ("U+104DC" :> <<"U+104B4">>) @@ ("U+104DD" :> <<"U+104B5">>) @@ ("U+104DE" :> <<"U+104B6">>) @@
     ("U+104DF" :> <<"U+104B7">>) @@ ("U+104E0" :> <<"U+104B8">>) @@ ("U+104E1" :> <<"U+104B9">>) @@ ("U+104E2" :> <<"U+104BA">>) @@
     ("U+104E3" :> <<"U+104BB">>) @@ ("U+104E4" :> <<"U+104BC">>) @@ ("U+104E5" :> <<"U+104BD">>) @@ ("U+104E6" :> <<"U+104BE">>)) @@
    (("U+104E7" :> <<"U+104BF">>) @@ ("U+104E8" :> <<"U+104C0">>) @@ ("U+104E9" :> <<"U+104C1">>) @@ ("U+104EA" :> <<"U+104C2">>) @@
     ("U+104EB" :> <<"U+104C3">>) @@ ("U+104EC" :> <<"U+104C4">>) @@ ("U+104ED" :> <<"U+104C5">>) @@ ("U+104EE" :> <<"U+104C6">>) @@
     ("U+104EF" :> <<"U+104C7">>) @@ ("U+104F0" :> <<"U+104C8">>) @@ ("U+104F1" :> <<"U+104C9">>) @@ ("U+104F2" :> <<"U+104CA">>) @@
     ("U+104F3" :> <<"U+104CB">>) @@ ("U+104F4" :> <<"U+104CC">>) @@ ("U+104F5" :> <<"U+104CD">>) @@ ("U+104F6" :> <<"U+104CE">>) @@
     ("U+104F7" :> <<"U+104CF">>) @@ ("U+104F8" :> <<"U+104D0">>) @@ ("U+104F9" :> <<"U+104D1">>) @@ ("U+104FA" :> <<"U+104D2">>) @@
     ("U+104FB" :> <<"U+104D3">>) @@ ("U+10597" :> <<"U+10570">>) @@ ("U+10598" :> <<"U+10571">>) @@ ("U+10599" :> <<"U+10572">>)) @@
    (("U+1059A" :> <<"U+10573">>) @@ ("U+1059B" :> <<"U+10574">>) @@ ("U+1059C" :> <<"U+10575">>) @@ ("U+1059D" :> <<"U+10576">>) @@
     ("U+1059E" :> <<"U+10577">>) @@ ("U+1059F" :> <<"U+10578">>) @@ ("U+105A0" :> <<"U+10579">>) @@ ("U+105A1" :> <<"U+1057A">>) @@
     ("U+105A3" :> <<"U+1057C">>) @@ ("U+105A4" :> <<"U+1057D">>) @@ ("U+105A5" :> <<"U+1057E">>) @@ ("U+105A6" :> <<"U+1057F">>) @@
     ("U+105A7" :> <<"U+10580">>) @@ ("U+105A8" :> <<"U+10581">>) @@ ("U+105A9" :> <<"U+10582">>) @@ ("U+105AA" :> <<"U+10583">>) @@
     ("U+105AB" :> <<"U+10584">>) @@ ("U+105AC" :> <<"U+10585">>) @@ ("U+105AD" :> <<"U+10586">>) @@ ("U+105AE" :> <<"U+10587">>) @@
     ("U+105AF" :> <<"U+10588">>) @@ ("U+105B0" :> <<"U+10589">>) @@ ("U+105B1" :> <<"U+1058A">>) @@ ("U+105B3" :> <<"U+1058C">>)) @@
    (("U+105B4" :> <<"U+1058D">>) @@ ("U+105B5" :> <<"U+1058E">>) @@ ("U+105B6" :> <<"U+1058F">>) @@ ("U+105B7" :> <<"U+10590">>) @@
     ("U+105B8" :> <<"U+10591">>) @@ ("U+105B9" :> <<"U+10592">>) @@ ("U+105BB" :> <<"U+10594">>) @@ ("U+105BC" :> <<"U+10595">>) @@
     ("U+10CC0" :> <<"U+10C80">>) @@ ("U+10CC1" :> <<"U+10C81">>) @@ ("U+10CC2" :> <<"U+10C82">>) @@ ("U+10CC3" :> <<"U+10C83">>) @@
     ("U+10CC4" :> <<"U+10C84">>) @@ ("U+10CC5" :> <<"U+10C85">>) @@ ("U+10CC6" :> <<"U+10C86">>) @@ ("U+10CC7" :> <<"U+10C87">>) @@
     ("U+10CC8" :> <<"U+10C88">>) @@ ("U+10CC9" :> <<"U+10C89">>) @@ ("U+10CCA" :> <<"U+10C8A">>) @@ ("U+10CCB" :> <<"U+10C8B">>) @@
     ("U+10CCC" :> <<"U+10C8C">>) @@ ("U+10CCD" :> <<"U+10C8D">>) @@ ("U+10CCE" :> <<"U+10C8E">>) @@ ("U+10CCF" :> <<"U+10C8F">>)) @@
    (("U+10CD0" :> <<"U+10C90">>) @@ ("U+10CD1" :> <<"U+10C91">>) @@ ("U+10CD2" :> <<"U+10C92">>) @@ ("U+10CD3" :> <<"U+10C93">>) @@
     ("U+10CD4" :> <<"U+10C94">>) @@ ("U+10CD5" :> <<"U+10C95">>) @@ ("U+10CD6" :> <<"U+10C96">>) @@ ("U+10CD7" :> <<"U+10C97">>) @@
     ("U+10CD8" :> <<"U+10C98">>) @@ ("U+10CD9" :> <<"U+10C99">>) @@ ("U+10CDA" :> <<"U+10C9A">>) @@ ("U+10CDB" :> <<"U+10C9B">>) @@
     ("U+10CDC" :> <<"U+10C9C">>) @@ ("U+10CDD" :> <<"U+10C9D">>) @@ ("U+10CDE" :> <<"U+10C9E">>) @@ ("U+10CDF" :> <<"U+10C9F">>) @@
     ("U+10CE0" :> <<"U+10CA0">>) @@ ("U+10CE1" :> <<"U+10CA1">>) @@ ("U+10CE2" :> <<"U+10CA2">>) @@ ("U+10CE3" :> <<"U+10CA3">>) @@
     ("U+10CE4" :> <<"U+10CA4">>) @@ ("U+10CE5" :> <<"U+10CA5">>) @@ ("U+10CE6" :> <<"U+10CA6">>) @@ ("U+10CE7" :> <<"U+10CA7">>)) @@
    (("U+10CE8" :> <<"U+10CA8">>) @@ ("U+10CE9" :> <<"U+10CA9">>) @@ ("U+10CEA" :> <<"U+10CAA">>) @@ ("U+10CEB" :> <<"U+10CAB">>) @@
     ("U+10CEC" :> <<"U+10CAC">>) @@ ("U+10CED" :> <<"U+10CAD">>) @@ ("U+10CEE" :> <<"U+10CAE">>) @@ ("U+10CEF" :> <<"U+10CAF">>) @@
     ("U+10CF0" :> <<"U+10CB0">>) @@ ("U+10CF1" :> <<"U+10CB1">>) @@ ("U+10CF2" :> <<"U+10CB2">>) @@ ("U+118C0" :> <<"U+118A0">>) @@
     ("U+118C1" :> <<"U+118A1">>) @@ ("U+118C2" :> <<"U+118A2">>) @@ ("U+118C3" :> <<"U+118A3">>) @@ ("U+118C4" :> <<"U+118A4">>) @@
     ("U+118C5" :> <<"U+118A5">>) @@ ("U+118C6" :> <<"U+118A6">>) @@ ("U+118C7" :> <<"U+118A7">>) @@ ("U+118C8" :> <<"U+118A8">>) @@
     ("U+118C9" :> <<"U+118A9">>) @@ ("U+118CA" :> <<"U+118AA">>) @@ ("U+118CB" :> <<"U+118AB">>) @@ ("U+118CC" :> <<"U+118AC">>)) @@
    (("U+118CD" :> <<"U+118AD">>) @@ ("U+118CE" :> <<"U+118AE">>) @@ ("U+118CF" :> <<"U+118AF">>) @@ ("U+118D0" :> <<"U+118B0">>) @@
     ("U+118D1" :> <<"U+118B1">>) @@ ("U+118D2" :> <<"U+118B2">>) @@ ("U+118D3" :> <<"U+118B3">>) @@ ("U+118D4" :> <<"U+118B4">>) @@
     ("U+118D5" :> <<"U+118B5">>) @@ ("U+118D6" :> <<"U+118B6">>) @@ ("U+118D7" :> <<"U+118B7">>) @@ ("U+118D8" :> <<"U+118B8">>) @@
     ("U+118D9" :> <<"U+118B9">>) @@ ("U+118DA" :> <<"U+118BA">>) @@ ("U+118DB" :> <<"U+118BB">>) @@ ("U+118DC" :> <<"U+118BC">>) @@
     ("U+118DD" :> <<"U+118BD">>) @@ ("U+118DE" :> <<"U+118BE">>) @@ ("U+118DF" :> <<"U+118BF">>) @@ ("U+16E60" :> <<"U+16E40">>) @@
     ("U+16E61" :> <<"U+16E41">>) @@ ("U+16E62" :> <<"U+16E42">>) @@ ("U+16E63" :> <<"U+16E43">>) @@ ("U+16E64" :> <<"U+16E44">>)) @@
    (("U+16E65" :> <<"U+16E45">>) @@ ("U+16E66" :> <<"U+16E46">>) @@ ("U+16E67" :> <<"U+16E47">>) @@ ("U+16E68" :> <<"U+16E48">>) @@
     ("U+16E69" :> <<"U+16E49">>) @@ ("U+16E6A" :> <<"U+16E4A">>) @@ ("U+16E6B" :> <<"U+16E4B">>) @@ ("U+16E6C" :> <<"U+16E4C">>) @@
     ("U+16E6D" :> <<"U+16E4D">>) @@ ("U+16E6E" :> <<"U+16E4E">>) @@ ("U+16E6F" :> <<"U+16E4F">>) @@ ("U+16E70" :> <<"U+16E50">>) @@
     ("U+16E71" :> <<"U+16E51">>) @@ ("U+16E72" :> <<"U+16E52">>) @@ ("U+16E73" :> <<"U+16E53">>) @@ ("U+16E74" :> <<"U+16E54">>) @@
     ("U+16E75" :> <<"U+16E55">>) @@ ("U+16E76" :> <<"U+16E56">>) @@ ("U+16E77" :> <<"U+16E57">>) @@ ("U+16E78" :> <<"U+16E58">>) @@
     ("U+16E79" :> <<"U+16E59">>) @@ ("U+16E7A" :> <<"U+16E5A">>) @@ ("U+16E7B" :> <<"U+16E5B">>) @@ ("U+16E7C" :> <<"U+16E5C">>)) @@
    (("U+16E7D" :> <<"U+16E5D">>) @@ ("U+16E7E" :> <<"U+16E5E">>) @@ ("U+16E7F" :> <<"U+16E5F">>) @@ ("U+1E922" :> <<"U+1E900">>) @@
     ("U+1E923" :> <<"U+1E901">>) @@ ("U+1E924" :> <<"U+1E902">>) @@ ("U+1E925" :> <<"U+1E903">>) @@ ("U+1E926" :> <<"U+1E904">>) @@
     ("U+1E927" :> <<"U+1E905">>) @@ ("U+1E928" :> <<"U+1E906">>) @@ ("U+1E929" :> <<"U+1E907">>) @@ ("U+1E92A" :> <<"U+1E908">>) @@
     ("U+1E92B" :> <<"U+1E909">>) @@ ("U+1E92C" :> <<"U+1E90A">>) @@ ("U+1E92D" :> <<"U+1E90B">>) @@ ("U+1E92E" :> <<"U+1E90C">>) @@
     ("U+1E92F" :> <<"U+1E90D">>) @@ ("U+1E930" :> <<"U+1E90E">>) @@ ("U+1E931" :> <<"U+1E90F">>) @@ ("U+1E932" :> <<"U+1E910">>) @@
     ("U+1E933" :> <<"U+1E911">>) @@ ("U+1E934" :> <<"U+1E912">>) @@ ("U+1E935" :> <<"U+1E913">>) @@ ("U+1E936" :> <<"U+1E914">>)) @@
    (("U+1E937" :> <<"U+1E915">>) @@ ("U+1E938" :> <<"U+1E916">>) @@ ("U+1E939" :> <<"U+1E917">>) @@ ("U+1E93A" :> <<"U+1E918">>) @@
     ("U+1E93B" :> <<"U+1E919">>) @@ ("U+1E93C" :> <<"U+1E91A">>) @@ ("U+1E93D" :> <<"U+1E91B">>) @@ ("U+1E93E" :> <<"U+1E91C">>) @@
     ("U+1E93F" :> <<"U+1E91D">>) @@ ("U+1E940" :> <<"U+1E91E">>) @@ ("U+1E941" :> <<"U+1E91F">>) @@ ("U+1E942" :> <<"U+1E920">>) @@
     ("U+1E943" :> <<"U+1E921">>))

\* str.upper() of one character; a character without an entry is its own upper
\* case.
UpperChar(c) == IF c \in DOMAIN UpperMap THEN UpperMap[c] ELSE <<c>>

\* The upper-cased characters lo..hi of s, joined.
RECURSIVE UpperIn(_, _, _)
UpperIn(s, lo, hi) ==
    IF lo > hi THEN <<>>
    ELSE IF lo = hi THEN UpperChar(s[lo])
    ELSE UpperIn(s, lo, (lo + hi) \div 2) \o UpperIn(s, (lo + hi) \div 2 + 1, hi)

\* str.upper()
Upper(s) == UpperIn(s, 1, Len(s))

\* str.startswith(p)
StartsWith(s, p) == Len(s) >= Len(p) /\ SubSeq(s, 1, Len(p)) = p

\* p in s (substring test)
Contains(s, p) ==
    \E i \in 1..(Len(s) - Len(p) + 1) : SubSeq(s, i, i + Len(p) - 1) = p

\* The first index in lo..hi whose element of s is in W, or hi + 1 without one.
\* The range is halved rather than walked, so that long texts stay in reach.
RECURSIVE FirstIn(_, _, _, _)
FirstIn(s, W, lo, hi) ==
    IF lo > hi THEN hi + 1
    ELSE IF lo = hi THEN (IF s[lo] \in W THEN lo ELSE hi + 1)
    ELSE LET mid  == (lo + hi) \div 2
             left == FirstIn(s, W, lo, mid)
         IN  IF left <= mid THEN left ELSE FirstIn(s, W, mid + 1, hi)

\* The first index in lo..hi whose element of s is not in W, or hi + 1 without one.
RECURSIVE FirstOutsideIn(_, _, _, _)
FirstOutsideIn(s, W, lo, hi) ==
    IF lo > hi THEN hi + 1
    ELSE IF lo = hi THEN (IF s[lo] \notin W THEN lo ELSE hi + 1)
    ELSE LET mid  == (lo + hi) \div 2
             left == FirstOutsideIn(s, W, lo, mid)
         IN  IF left <= mid THEN left ELSE FirstOutsideIn(s, W, mid + 1, hi)

\* The last index in lo..hi whose element of s is not in W, or lo - 1 without one.
RECURSIVE LastOutsideIn(_, _, _, _)
LastOutsideIn(s, W, lo, hi) ==
    IF lo > hi THEN lo - 1
    ELSE IF lo = hi THEN (IF s[lo] \notin W THEN lo ELSE lo - 1)
    ELSE LET mid   == (lo + hi) \div 2
             right == LastOutsideIn(s, W, mid + 1, hi)
         IN  IF right > mid THEN right ELSE LastOutsideIn(s, W, lo, mid)

FirstOutside(s, W) == FirstOutsideIn(s, W, 1, Len(s))

LastOutside(s, W) == LastOutsideIn(s, W, 1, Len(s))

\* The index of the first c in s from index i on, or Len(s) + 1 when there is none.
IndexFrom(s, c, i) == FirstIn(s, {c}, i, Len(s))

\* s.split(c, 1)[0] when c occurs in s, else s
BeforeFirst(s, c) == SubSeq(s, 1, IndexFrom(s, c, 1) - 1)

\* s without the characters of W at its two ends.
StripSet(s, W) == SubSeq(s, FirstOutside(s, W), LastOutside(s, W))

\* str.strip()
Strip(s) == StripSet(s, WhiteSpace)

\* str.rstrip(c) for a single character c
RStripChar(s, c) == SubSeq(s, 1, LastOutside(s, {c}))

\* line.replace(',', ' ')
ReplaceComma(s) == [i \in 1..Len(s) |-> IF s[i] = "," THEN " " ELSE s[i]]

\* str.split() from index i on: the maximal runs of non-whitespace characters, in
\* order, after the tokens acc already read.  The next token starts at the first
\* character from i on that is no whitespace and ends before the first one after
\* it that is.
RECURSIVE SplitFrom(_, _, _)
SplitFrom(s, i, acc) ==
    LET start == FirstOutsideIn(s, WhiteSpace, i, Len(s))
        end   == FirstIn(s, WhiteSpace, start, Len(s))
    IN  IF start > Len(s) THEN acc
        ELSE SplitFrom(s, end, Append(acc, SubSeq(s, start, end - 1)))

Split(s) == SplitFrom(s, 1, <<>>)

\* ------------------------------------------------- exact decimal arithmetic
\* A natural number is a sequence of digit values, most significant first (<<>> is
\* 0).  A decimal [ds, ex] is the number ds * 10^ex; it is normal when ds has no
\* zero at either end, and 0 is [<<>>, 0].  Every double is a decimal, so the
\* arithmetic of doubles is done exactly on decimals and then rounded as IEEE 754
\* rounds it.  No operator walks a number digit by digit: carries are looked up.

DigitVals(s) == [i \in 1..Len(s) |-> DigitMap[s[i]]]

DigitChars(ds) == [i \in 1..Len(ds) |-> Digits[ds[i] + 1]]

AllDigits(s) == \A i \in 1..Len(s) : IsDigit(s[i])

Zeros(n) == [i \in 1..n |-> 0]

\* The value of a short sequence of digit values.
RECURSIVE DigitsVal(_)
DigitsVal(ds) ==
    IF ds = <<>> THEN 0 ELSE DigitsVal(SubSeq(ds, 1, Len(ds) - 1)) * 10 + ds[Len(ds)]

\* The digits of the natural number n (<<>> for 0).
RECURSIVE NatDigits(_)
NatDigits(n) == IF n = 0 THEN <<>> ELSE Append(NatDigits(n \div 10), n % 10)

Dec(ds, ex) == [ds |-> ds, ex |-> ex]

DZero == Dec(<<>>, 0)

DOne == Dec(<<1>>, 0)

\* The normal form of the decimal d.
DNorm(d) ==
    LET lo == FirstOutside(d.ds, {0})
        hi == LastOutside(d.ds, {0})
    IN  IF lo > Len(d.ds) THEN DZero
        ELSE Dec(SubSeq(d.ds, lo, hi), d.ex + (Len(d.ds) - hi))

\* 10^Mag(d) is the first power of ten above the normal decimal d # 0.
Mag(d) == Len(d.ds) + d.ex

\* The numbers that are scaled by powers of two are grouped into limbs of five
\* digits: a limb sequence ls with the limb exponent lx is ls * Base^lx.
Base == 100000

\* The normal decimal d as limbs: its digits, filled up with zeros to a multiple
\* of five at a limb boundary, in groups of five.
ToLimbs(d) ==
    LET back  == d.ex % 5
        front == (5 - ((Len(d.ds) + back) % 5)) % 5
        Group5(p) ==
            [j \in 1..(Len(p) \div 5) |->
                10000 * p[5 * j - 4] + 1000 * p[5 * j - 3] + 100 * p[5 * j - 2]
                    + 10 * p[5 * j - 1] + p[5 * j]]
    IN  [ls |-> Group5(Zeros(front) \o d.ds \o Zeros(back)), lx |-> (d.ex - back) \div 5]

\* The decimal of the limbs x.
FromLimbs(x) ==
    DNorm(Dec([i \in 1..(5 * Len(x.ls)) |->
                  (x.ls[(i + 4) \div 5] \div 10^(4 - ((i - 1) % 5))) % 10],
              5 * x.lx))

\* x * m for a divisor m of Base: the carry into a limb is read off the limb after
\* it, because the multiples of 1/m are limb fractions; one zero limb at either
\* end of the product is dropped.
LimbsTimes(x, m) ==
    LET LimbAt(i) == IF i >= 1 /\ i <= Len(x.ls) THEN x.ls[i] ELSE 0
        TrimLimbs(ls) ==
            LET lo == IF ls[1] = 0 THEN 2 ELSE 1
                hi == IF Len(ls) > 1 /\ ls[Len(ls)] = 0 THEN Len(ls) - 1 ELSE Len(ls)
            IN  [ls |-> SubSeq(ls, lo, hi), lx |-> x.lx + (Len(ls) - hi)]
    IN  TrimLimbs([i \in 1..(Len(x.ls) + 1) |->
                      ((LimbAt(i - 1) * m) % Base) + ((LimbAt(i) * m) \div Base)])

\* x / 32 = x * 3125 / Base
LimbsOver32(x) == [LimbsTimes(x, 3125) EXCEPT !.lx = @ - 1]

\* x * 32^n for a natural number n, the count halved at each step.
RECURSIVE LimbsUp(_, _)
LimbsUp(x, n) ==
    IF n = 0 THEN x
    ELSE IF n = 1 THEN LimbsTimes(x, 32)
    ELSE LET half == LimbsUp(x, n \div 2)
         IN  IF half.ls = <<>> THEN half ELSE LimbsUp(half, n - (n \div 2))

\* x / 32^n for a natural number n
RECURSIVE LimbsDown(_, _)
LimbsDown(x, n) ==
    IF n = 0 THEN x
    ELSE IF n = 1 THEN LimbsOver32(x)
    ELSE LET half == LimbsDown(x, n \div 2)
         IN  IF half.ls = <<>> THEN half ELSE LimbsDown(half, n - (n \div 2))

\* x * 2^e for any integer e: 2^e = 32^(e \div 5) * 2^(e % 5)
LimbsScale2(x, e) ==
    LimbsTimes(IF e >= 0 THEN LimbsUp(x, e \div 5) ELSE LimbsDown(x, -(e \div 5)),
               2^(e % 5))

\* d * 2^e for any integer e
DScale2(d, e) == IF e = 0 \/ d.ds = <<>> THEN d ELSE FromLimbs(LimbsScale2(ToLimbs(d), e))

\* The first index from 1 on where the digit sequences x and y differ, the shorter
\* one continued with zeros, or 0 when they are the same number; negative when x
\* has the smaller digit there.
FirstDiff(x, y) ==
    LET n == Max(Len(x), Len(y))
        z == [i \in 1..n |-> (IF i <= Len(x) THEN x[i] ELSE 0) - (IF i <= Len(y) THEN y[i] ELSE 0)]
        j == FirstOutside(z, {0})
    IN  IF j > n THEN 0 ELSE IF z[j] < 0 THEN -j ELSE j

\* The normal decimals a and b compared: negative, 0 or positive.
DCmp(a, b) ==
    IF a.ds = <<>> THEN (IF b.ds = <<>> THEN 0 ELSE -1)
    ELSE IF b.ds = <<>> THEN 1
    ELSE IF Mag(a) < Mag(b) THEN -1
    ELSE IF Mag(a) > Mag(b) THEN 1
    ELSE FirstDiff(a.ds, b.ds)

\* The digits of d written down to 10^ex (ex <= d.ex), n digits wide (n large enough).
DigitsAt(d, ex, n) == Zeros(n - Len(d.ds) - (d.ex - ex)) \o d.ds \o Zeros(d.ex - ex)

\* x + y for digit sequences of one length whose first digits are 0.  There is a
\* carry into digit i when the first digit sum after i that is not 9 is 10 or more.
AddDigits(x, y) ==
    LET s == [i \in 1..Len(x) |-> x[i] + y[i]]
    IN  [i \in 1..Len(x) |->
            (s[i] + IF \E j \in {FirstOutsideIn(s, {9}, i + 1, Len(s))} :
                          j <= Len(s) /\ s[j] >= 10
                    THEN 1 ELSE 0) % 10]

\* x - y for digit sequences of one length with x >= y.  There is a borrow from
\* digit i when the first digit difference after i that is not 0 is negative.
SubDigits(x, y) ==
    LET t == [i \in 1..Len(x) |-> x[i] - y[i]]
    IN  [i \in 1..Len(x) |->
            (t[i] + 10 - IF \E j \in {FirstOutsideIn(t, {0}, i + 1, Len(t))} :
                               j <= Len(t) /\ t[j] < 0
                         THEN 1 ELSE 0) % 10]

\* The width in digits of a sum or difference of a and b written down to 10^ex.
Width(a, b, ex) == Max(Mag(a), Mag(b)) - ex + 1

\* a + b
DAdd(a, b) ==
    IF a.ds = <<>> THEN b
    ELSE IF b.ds = <<>> THEN a
    ELSE LET ex == Min(a.ex, b.ex)
             n  == Width(a, b, ex)
         IN  DNorm(Dec(AddDigits(DigitsAt(a, ex, n), DigitsAt(b, ex, n)), ex))

\* a - b for a >= b
DSub(a, b) ==
    IF b.ds = <<>> THEN a
    ELSE LET ex == Min(a.ex, b.ex)
             n  == Width(a, b, ex)
         IN  DNorm(Dec(SubDigits(DigitsAt(a, ex, n), DigitsAt(b, ex, n)), ex))

\* d * k for a natural number k, by doubling.
RECURSIVE DTimes(_, _)
DTimes(d, k) ==
    IF k = 0 THEN DZero
    ELSE IF k = 1 THEN d
    ELSE IF k % 2 = 0 THEN DScale2(DTimes(d, k \div 2), 1)
    ELSE DAdd(DScale2(DTimes(d, k \div 2), 1), d)

\* The integer part of the normal decimal d.
DTrunc(d) ==
    IF d.ex >= 0 THEN d
    ELSE IF Mag(d) <= 0 THEN DZero
    ELSE DNorm(Dec(SubSeq(d.ds, 1, Mag(d)), 0))

\* The part of the normal decimal d after the point.
DFrac(d) ==
    IF d.ex >= 0 THEN DZero
    ELSE IF Mag(d) <= 0 THEN d
    ELSE DNorm(Dec(SubSeq(d.ds, Mag(d) + 1, Len(d.ds)), d.ex))

\* The normal decimal d is rounded up to the next integer: its fraction is above
\* one half, or is one half and the integer part is odd.
RoundsUp(d) ==
    LET Above(fr) ==
            /\ fr.ds # <<>>
            /\ Mag(fr) = 0
            /\ \/ fr.ds[1] > 5
               \/ fr.ds[1] = 5 /\ Len(fr.ds) > 1
               \/ fr.ds[1] = 5 /\ Mag(d) > 0 /\ d.ds[Mag(d)] % 2 = 1
    IN  Above(DFrac(d))

\* The normal decimal d rounded to the nearest integer, a tie to the even one.
DRound(d) ==
    IF d.ex >= 0 THEN d
    ELSE DAdd(DTrunc(d), IF RoundsUp(d) THEN DOne ELSE DZero)

\* The decimal m * 10^e in normal form.
Scale10(m, e) == DNorm(Dec(m.ds, m.ex + e))

\* The normal decimal d rounded to the nearest multiple of 10^q.
DRoundAt(d, q) == Scale10(DRound(Dec(d.ds, d.ex - q)), q)

\* The normal decimal d # 0 rounded to p significant digits.
RoundSig(d, p) == IF Len(d.ds) <= p THEN d ELSE DRoundAt(d, Mag(d) - p)

\* The integer decimal d is even.
DEven(d) == d.ds = <<>> \/ d.ex > 0 \/ d.ds[Len(d.ds)] % 2 = 0

\* ------------------------------------------------------------------ doubles
\* A float is [kind, neg, ds, ex]: kind is "fin", "inf" or "nan"; a finite float
\* is the double whose repr has the digits ds and the decimal exponent ex (the
\* normal decimal ds * 10^ex is the shortest one that rounds to the double), and
\* neg is its sign bit.

Fin(neg, d) == [kind |-> "fin", neg |-> neg, ds |-> d.ds, ex |-> d.ex]

Inf(neg) == [kind |-> "inf", neg |-> neg, ds |-> <<>>, ex |-> 0]

NaN == [kind |-> "nan", neg |-> FALSE, ds |-> <<>>, ex |-> 0]

\* The double of the integer n, |n| < 10^9.
Flt(n) == Fin(n < 0, DNorm(Dec(NatDigits(Abs(n)), 0)))

\* The double nearest to n * 10^ex for 0 < |n| < 10^9 and -290 < ex < 280.
FltDec(n, ex) == Fin(n < 0, DNorm(Dec(NatDigits(Abs(n)), ex)))

DecOf(f) == Dec(f.ds, f.ex)

IsZero(f) == f.kind = "fin" /\ f.ds = <<>>

\* 2^52 and 2^53: the significand of a normal double is in [2^52, 2^53).
Pow2_52 == Dec(<<4, 5, 0, 3, 5, 9, 9, 6, 2, 7, 3, 7, 0, 4, 9, 6>>, 0)

Pow2_53 == Dec(<<9, 0, 0, 7, 1, 9, 9, 2, 5, 4, 7, 4, 0, 9, 9, 2>>, 0)

\* The least binary exponent of a double, and the greatest of a finite one.
MinExp == -1074

MaxExp == 971

\* An estimate of the binary exponent e with d / 2^e in [2^52, 2^53): log2(10)
\* is 3.321928...
EstimateExp(d) == Max(((Mag(d) - 1) * 3321928) \div 1000000 - 52, MinExp)

\* The decimal t = d / 2^e brought into [2^52, 2^53), or left below 2^52 at
\* e = MinExp (a subnormal): the scaled decimal and its e.
RECURSIVE Normalize2(_, _)
Normalize2(t, e) ==
    IF DCmp(t, Pow2_53) >= 0 THEN Normalize2(DScale2(t, -1), e + 1)
    ELSE IF DCmp(t, Pow2_52) < 0 /\ e > MinExp THEN Normalize2(DScale2(t, 1), e - 1)
    ELSE [t |-> t, e |-> e]

\* Round to nearest, ties to even, of the scaled decimal: the significand m and
\* the exponent e of the double m * 2^e, with m = 2^53 carried into the exponent,
\* and inf set when the double is out of range.
RoundScaled(n) ==
    LET Carried(m, c) ==
            [m   |-> IF c THEN Pow2_52 ELSE m,
             e   |-> IF c THEN n.e + 1 ELSE n.e,
             inf |-> (IF c THEN n.e + 1 ELSE n.e) > MaxExp]
        Carry(m) == Carried(m, DCmp(m, Pow2_53) = 0)
    IN  Carry(DRound(n.t))

\* The double nearest to the normal decimal d > 0.
RoundToDouble(d) == RoundScaled(Normalize2(DScale2(d, -EstimateExp(d)), EstimateExp(d)))

\* The exact value of the double r.
ExactOf(r) == DScale2(r.m, r.e)

\* Half the distance from the double r to the next double above it.
HalfGap(r) == DScale2(DOne, r.e - 1)

\* Half the distance to the next double below: the doubles below a power of two
\* are twice as dense.
HalfGapBelow(r) ==
    IF DCmp(r.m, Pow2_52) = 0 /\ r.e > MinExp THEN DScale2(DOne, r.e - 2) ELSE HalfGap(r)

\* The decimal c rounds to the double with the rounding interval lo..hi, whose
\* ends round to it when its significand is even.
RoundsTo(c, lo, hi, even) ==
    LET Between(cl, ch) ==
            \/ cl > 0 /\ ch < 0
            \/ even /\ (cl = 0 \/ ch = 0)
    IN  Between(DCmp(c, lo), DCmp(c, hi))

\* The multiple of 10^q next to the decimal e on the other side of near.
OtherSide(e, near, q) ==
    IF DCmp(near, e) > 0 THEN DSub(near, Dec(<<1>>, q)) ELSE DAdd(near, Dec(<<1>>, q))

\* The decimal of p digits that repr would give for the double e, if there is one:
\* the multiple nearest to e when it rounds to e, else the one on the other side
\* of e when that one does; 17 digits always do.
CandidateNear(near, e, lo, hi, even, p) ==
    IF p >= 17 \/ RoundsTo(near, lo, hi, even) THEN <<near>>
    ELSE SelectSeq(<<OtherSide(e, near, Mag(e) - p)>>, LAMBDA c : RoundsTo(c, lo, hi, even))

Candidate(e, lo, hi, even, p) == CandidateNear(RoundSig(e, p), e, lo, hi, even, p)

\* The least number of digits in a..b that give a candidate, b being one that
\* does: a decimal of p digits is also one of p + 1 digits.
RECURSIVE ShortestIn(_, _, _, _, _, _)
ShortestIn(e, lo, hi, even, a, b) ==
    LET From(c) ==
            IF a >= b THEN c[1]
            ELSE IF c # <<>> THEN ShortestIn(e, lo, hi, even, a, (a + b) \div 2)
            ELSE ShortestIn(e, lo, hi, even, (a + b) \div 2 + 1, b)
    IN  From(Candidate(e, lo, hi, even, (a + b) \div 2))

\* The digits of repr for the double r: the shortest decimal that rounds to it,
\* and the nearest to it among those.
ShortestOf(e, r) ==
    ShortestIn(e, DSub(e, HalfGapBelow(r)), DAdd(e, HalfGap(r)), DEven(r.m), 1, 17)

Shortest(r) == IF r.m.ds = <<>> THEN DZero ELSE ShortestOf(ExactOf(r), r)

\* A decimal of at most 15 digits that is an integer is a double.
IsSmallInt(d) == d.ex >= 0 /\ Mag(d) <= 15

\* The exact value of the finite float whose repr digits are the decimal d.
Exact(d) == IF d.ds = <<>> \/ IsSmallInt(d) THEN d ELSE ExactOf(RoundToDouble(d))

\* The double nearest to the normal decimal d, with the sign neg.  A decimal of at
\* most 15 digits within the normal range is the repr of the double it rounds to;
\* decimals of 10^310 and more round to infinity, those below 10^-330 to zero.
FloatOfRounded(neg, r) == IF r.inf THEN Inf(neg) ELSE Fin(neg, Shortest(r))

FromDecimal(neg, d) ==
    IF d.ds = <<>> THEN Fin(neg, DZero)
    ELSE IF Len(d.ds) <= 15 /\ Mag(d) >= -290 /\ Mag(d) <= 290 THEN Fin(neg, d)
    ELSE IF Mag(d) > 310 THEN Inf(neg)
    ELSE IF Mag(d) < -330 THEN Fin(neg, DZero)
    ELSE FloatOfRounded(neg, RoundToDouble(d))

\* ------------------------------------------------------- float arithmetic

FNeg(f) == [f EXCEPT !.neg = f.kind # "nan" /\ ~f.neg]

FAbs(f) == [f EXCEPT !.neg = FALSE]

\* The sum of two finite floats that are not zero: the exact sum of their exact
\* values ea and eb, rounded.  With opposite signs the sign is that of the greater
\* one, and equal values give +0.0.
ExactSum(na, nb, ea, eb) ==
    FromDecimal(IF na = nb \/ DCmp(ea, eb) > 0 THEN na ELSE DCmp(ea, eb) < 0 /\ nb,
                IF na = nb THEN DAdd(ea, eb)
                ELSE DSub(IF DCmp(ea, eb) >= 0 THEN ea ELSE eb,
                          IF DCmp(ea, eb) >= 0 THEN eb ELSE ea))

FinAdd(a, b) == ExactSum(a.neg, b.neg, Exact(DecOf(a)), Exact(DecOf(b)))

\* a + b
FAdd(a, b) ==
    IF a.kind = "nan" \/ b.kind = "nan" THEN NaN
    ELSE IF a.kind = "inf" THEN (IF b.kind = "inf" /\ b.neg # a.neg THEN NaN ELSE a)
    ELSE IF b.kind = "inf" THEN b
    ELSE IF IsZero(a) THEN (IF IsZero(b) THEN Fin(a.neg /\ b.neg, DZero) ELSE b)
    ELSE IF IsZero(b) THEN a
    ELSE FinAdd(a, b)

\* a - b
FSub(a, b) == FAdd(a, FNeg(b))

\* f * k for an int k: k is converted to a double first, exactly for |k| < 2^53.
FTimes(f, k) ==
    IF f.kind = "nan" THEN NaN
    ELSE IF f.kind = "inf" THEN (IF k = 0 THEN NaN ELSE Inf(f.neg # (k < 0)))
    ELSE IF f.ds = <<>> \/ k = 0 THEN Fin(f.neg # (k < 0), DZero)
    ELSE FromDecimal(f.neg # (k < 0), DTimes(Exact(DecOf(f)), Abs(k)))

\* -1, 0 or 1 as a is below, equal to or above b, for floats that are not nan.
\* Doubles are ordered as their repr digits are.
FCmp(a, b) ==
    LET Sign(f) == IF IsZero(f) THEN 0 ELSE IF f.neg THEN -1 ELSE 1
        Order(c) == IF c > 0 THEN 1 ELSE IF c < 0 THEN -1 ELSE 0
        MagCmp ==
            IF a.kind = "inf" THEN (IF b.kind = "inf" THEN 0 ELSE 1)
            ELSE IF b.kind = "inf" THEN -1
            ELSE Order(DCmp(DecOf(a), DecOf(b)))
    IN  IF Sign(a) # Sign(b) THEN (IF Sign(a) < Sign(b) THEN -1 ELSE 1)
        ELSE Sign(a) * MagCmp

\* a > b: false when either is nan
FGt(a, b) == a.kind # "nan" /\ b.kind # "nan" /\ FCmp(a, b) > 0

\* a <= b
FLe(a, b) == a.kind # "nan" /\ b.kind # "nan" /\ FCmp(a, b) <= 0

\* a < b
FLt(a, b) == a.kind # "nan" /\ b.kind # "nan" /\ FCmp(a, b) < 0

\* ---------------------------------------------------------------- float()

\* The text s is the lower-case word w in any letter case.
IsWord(s, w) ==
    /\ Len(s) = Len(w)
    /\ \A i \in 1..Len(w) : s[i] = w[i] \/ <<s[i]>> = UpperMap[w[i]]

\* Every underscore of s stands between two digits.
GoodUnderscores(s) ==
    \A i \in 1..Len(s) :
        s[i] = "_" => i > 1 /\ i < Len(s) /\ IsDigit(s[i - 1]) /\ IsDigit(s[i + 1])

\* The digits of the mantissa before and after the point, as a decimal without
\* the exponent, or None.
MantissaParts(ip, fp) ==
    IF AllDigits(ip) /\ AllDigits(fp) /\ Len(ip) + Len(fp) > 0
    THEN <<Dec(DigitVals(ip \o fp), -Len(fp))>>
    ELSE None

\* The mantissa s whose point, if any, is at index i.
MantissaAt(s, i) == MantissaParts(SubSeq(s, 1, i - 1), SubSeq(s, i + 1, Len(s)))

\* An unsigned decimal mantissa "ddd", "ddd.", "ddd.ddd" or ".ddd", or None.
Mantissa(s) == MantissaAt(s, IndexFrom(s, ".", 1))

\* Exponents beyond this one are all the same to a double.
HugeExp == 1000000

\* The exponent whose sign is neg and whose digits are body, or None; its value
\* is cut at HugeExp.
ExponentParts(neg, body) ==
    LET Signed(n) == IF neg THEN -n ELSE n
        Cut(sig) == IF Len(sig) > 6 THEN HugeExp ELSE DigitsVal(sig)
        ExpValue(ds) == Cut(SubSeq(ds, FirstOutside(ds, {0}), Len(ds)))
    IN  IF body # <<>> /\ AllDigits(body) THEN <<Signed(ExpValue(DigitVals(body)))>> ELSE None

\* An exponent "d..", "+d.." or "-d.." as an integer, or None.
Exponent(s) ==
    IF s # <<>> /\ Head(s) \in {"+", "-"}
    THEN ExponentParts(Head(s) = "-", Tail(s))
    ELSE ExponentParts(FALSE, s)

\* The float of mantissa m and exponent e (each None or <<v>>), with the sign neg.
FloatOf(neg, m, e) ==
    IF m = None \/ e = None THEN None ELSE <<FromDecimal(neg, Scale10(m[1], e[1]))>>

\* The float of the unsigned decimal literal u whose "e" or "E", if any, is at
\* index i.
FloatAt(neg, u, i) ==
    FloatOf(neg, Mantissa(SubSeq(u, 1, i - 1)),
            IF i <= Len(u) THEN Exponent(SubSeq(u, i + 1, Len(u))) ELSE <<0>>)

\* The float of the unsigned literal u, with the sign neg.
FloatUnsigned(neg, u) ==
    IF IsWord(u, <<"i", "n", "f">>) \/ IsWord(u, <<"i", "n", "f", "i", "n", "i", "t", "y">>)
    THEN <<Inf(neg)>>
    ELSE IF IsWord(u, <<"n", "a", "n">>) THEN <<NaN>>
    ELSE FloatAt(neg, u, FirstIn(u, {"e", "E"}, 1, Len(u)))

\* The float of the literal s without whitespace around it: the literal without
\* its sign and its underscores is read.
FloatStripped(s) ==
    LET NotUnderscore(c) == c # "_"
        Unsigned == IF s # <<>> /\ Head(s) \in {"+", "-"} THEN Tail(s) ELSE s
    IN  IF ~GoodUnderscores(s) THEN None
        ELSE FloatUnsigned(s # <<>> /\ Head(s) = "-", SelectSeq(Unsigned, NotUnderscore))

\* float(s): <<v>> for [ws][sign](mantissa[(e|E)exponent] | inf | infinity | nan)[ws]
\* with single underscores between digits, None where Python raises ValueError.
ParseFloat(s0) == FloatStripped(StripSet(s0, FloatSpace))

\* ------------------------------------------------------------ str(float)

\* repr of the positive decimal d, the digits of a double's repr: scientific
\* notation from 1e16 on and below 0.0001.
ReprDec(d) ==
    LET cs == DigitChars(d.ds)
        \* the exponent in scientific notation: a sign and two digits or more
        ExpStr(n) ==
            <<IF n < 0 THEN "-" ELSE "+">>
                \o (IF Abs(n) < 10 THEN <<"0">> ELSE <<>>) \o DigitChars(NatDigits(Abs(n)))
    IN  IF Mag(d) > 16 \/ Mag(d) < -3
        THEN <<Head(cs)>> \o (IF Len(cs) > 1 THEN <<".">> \o Tail(cs) ELSE <<>>)
             \o <<"e">> \o ExpStr(Mag(d) - 1)
        ELSE IF Mag(d) <= 0
        THEN <<"0", ".">> \o DigitChars(Zeros(-Mag(d))) \o cs
        ELSE IF d.ex >= 0
        THEN cs \o DigitChars(Zeros(d.ex)) \o <<".", "0">>
        ELSE SubSeq(cs, 1, Mag(d)) \o <<".">> \o SubSeq(cs, Mag(d) + 1, Len(cs))

\* str(v) of a float v (its repr): "5.0", "0.5", "4e-07", "1e+16", "inf", "nan".
FloatStr(v) ==
    IF v.kind = "nan" THEN <<"n", "a", "n">>
    ELSE (IF v.neg THEN <<"-">> ELSE <<>>)
         \o (IF v.kind = "inf" THEN <<"i", "n", "f">>
             ELSE IF v.ds = <<>> THEN <<"0", ".", "0">>
             ELSE ReprDec(DecOf(v)))

\* ----------------------------------------------------------------- helpers

\* What fmt_number gives when int(v) raises OverflowError: no text, the exception
\* leaves the function.
OverflowError == <<"OverflowError">>

\* The double 1e-9, exactly.
Tol == Dec(<<1, 0, 0, 0, 0, 0, 0, 0, 0, 0, 0, 0, 0, 0, 0, 0, 0, 6, 2, 2, 8, 1, 5, 9, 1, 4, 5, 7, 7, 7, 9, 8, 5, 6, 4, 1, 8, 8, 9, 7, 0, 6, 8, 6, 9, 2, 7, 8, 5, 9, 7, 8, 7, 8, 2, 9, 2, 2, 0, 2, 9, 4, 9, 5, 2, 3, 9, 2, 5, 7, 8, 1, 2, 5>>, -82)

\* str(n) of the integer decimal d with the sign neg
IntStr(neg, d) ==
    IF d.ds = <<>> THEN <<"0">>
    ELSE (IF neg THEN <<"-">> ELSE <<>>) \o DigitChars(d.ds \o Zeros(d.ex))

\* Mutation of RoundMicro: the 7th decimal is cut off.
RoundMicro_truncate(e) == DTrunc(Dec(e.ds, e.ex + 6))

\* The decimal e rounded to 6 decimals, in millionths: the tie goes to the even
\* millionth, and e is the exact value of the double, so that the 7th decimal of
\* the literal does not decide.
RoundMicro(e) == DRound(Dec(e.ds, e.ex + 6))

\* f"{v:.6f}" for the double of exact value e with the sign neg: the digits of
\* the millionths, seven or more, with a point before the last six.
Fixed6(neg, e) ==
    LET MicroDigits(n) == Zeros(7 - Len(n.ds) - n.ex) \o n.ds \o Zeros(n.ex)
        PointAt6(ds) ==
            (IF neg THEN <<"-">> ELSE <<>>)
                \o SubSeq(ds, 1, Len(ds) - 6) \o <<".">> \o SubSeq(ds, Len(ds) - 5, Len(ds))
    IN  PointAt6(DigitChars(MicroDigits(RoundMicro(e))))

\* fmt_number's rendering of a finite double with the sign neg from the decimal e
\* that stands for it: abs(v - int(v)) is the part of v after the point, exactly,
\* and tol stands for 1e-9.
fmt_decimal(neg, e, tol) ==
    IF DCmp(DFrac(e), tol) < 0
    THEN IntStr(neg, DTrunc(e))
    ELSE RStripChar(RStripChar(Fixed6(neg, e), "0"), ".")

\* fmt_number's rendering of the finite double with the repr digits d: from d and
\* the literal 1e-9 where that gives the same text, else from the exact values of
\* the two doubles.  The digits d stand for a double that f"{v:.6f}" and the test
\* against 1e-9 treat as they treat d itself when d is a small integer, or has 15
\* digits at most down to its 6th decimal or further and no final 5 as its 7th
\* decimal.
fmt_finite(neg, d) ==
    LET IsPlain ==
            \/ IsSmallInt(d)
            \/ /\ d.ex < 0
               /\ Max(Mag(d), 0) + Max(-d.ex, 6) <= 15
               /\ ~(d.ex = -7 /\ d.ds[Len(d.ds)] = 5)
    IN  fmt_decimal(neg, IF IsPlain THEN d ELSE Exact(d),
                    IF IsPlain THEN Dec(<<1>>, -9) ELSE Tol)

\* fmt_number's rendering of the float v: int(v) raises OverflowError for an
\* infinity and ValueError for a nan, and ValueError is caught.
fmt_value(v) ==
    IF v.kind = "inf" THEN OverflowError
    ELSE IF v.kind = "nan" THEN <<>>
    ELSE fmt_finite(v.neg, DecOf(v))

\* fmt_number after float(s): f is None (ValueError) or <<v>>.
fmt_parsed(f) == IF f = None THEN <<>> ELSE fmt_value(f[1])

\* Mutation of fmt_stripped: text that float() rejects is read as 0.
fmt_stripped_lenient(s) ==
    IF s = <<>> THEN <<>>
    ELSE IF ParseFloat(s) = None THEN <<"0">> ELSE fmt_parsed(ParseFloat(s))

\* fmt_number after s = s.strip()
fmt_stripped(s) == IF s = <<>> THEN <<>> ELSE fmt_parsed(ParseFloat(s))

\* fmt_number(s): canonical numeric text, "" when s is empty or not a number,
\* OverflowError when s is an infinity.
fmt_number(s0) == fmt_stripped(Strip(s0))

\* parse_float(s, default): float(s), or default when float raises.
parse_float(s, default) ==
    LET Or(f) == IF f = None THEN default ELSE f IN Or(ParseFloat(s))

\* The token loop of parse_g1_xy: x_val and y_val are None or <<v>>; a malformed
\* X or Y token returns None for the whole line.  ScanToken is the loop's body for
\* the upper-cased token t whose remainder token[1:] floats to f.
RECURSIVE ScanTokens(_, _, _)
ScanToken(rest, t, f, x_val, y_val) ==
    IF StartsWith(t, <<"X">>)
    THEN IF f = None THEN None ELSE ScanTokens(rest, f, y_val)
    ELSE IF StartsWith(t, <<"Y">>)
         THEN IF f = None THEN None ELSE ScanTokens(rest, x_val, f)
         ELSE ScanTokens(rest, x_val, y_val)

ScanTokens(tokens, x_val, y_val) ==
    IF tokens = <<>>
    THEN IF x_val = None \/ y_val = None THEN None ELSE <<x_val[1], y_val[1]>>
    ELSE ScanToken(Tail(tokens), Upper(Head(tokens)), ParseFloat(Tail(Head(tokens))),
                   x_val, y_val)

\* U.startswith("M3") or U.startswith("M5") for the upper-cased line U
IsSpindle(U) == StartsWith(U, <<"M", "3">>) \/ StartsWith(U, <<"M", "5">>)

\* parse_g1_xy after the comments are cut and the line is stripped.
parse_stripped(line) ==
    IF line = <<>> THEN None
    ELSE IF IsSpindle(Upper(line)) THEN None
    ELSE ScanTokens(Split(ReplaceComma(line)), None, None)

\* parse_g1_xy(line): <<x, y>> or None.
parse_g1_xy(line0) == parse_stripped(Strip(BeforeFirst(BeforeFirst(line0, ";"), "#")))

\* TOL = 1e-9 as a float
TOL == FltDec(1, -9)

\* The difference a - b of two finite floats is at most TOL in magnitude.  Floats
\* of the same repr are equal; whole numbers differ by 1 or more; doubles below
\* 10^6 are within 10^-10 of their repr, so that they are apart when their reprs
\* are 10^-8 apart; any other difference is rounded as the subtraction rounds it.
NearFin(a, b) ==
    IF DecOf(a) = DecOf(b) /\ (a.neg = b.neg \/ a.ds = <<>>) THEN TRUE
    ELSE IF a.ex >= 0 /\ b.ex >= 0 THEN FALSE
    ELSE IF /\ Mag(DecOf(a)) <= 6
            /\ Mag(DecOf(b)) <= 6
            /\ DCmp(IF a.neg # b.neg THEN DAdd(DecOf(a), DecOf(b))
                    ELSE IF DCmp(DecOf(a), DecOf(b)) >= 0 THEN DSub(DecOf(a), DecOf(b))
                    ELSE DSub(DecOf(b), DecOf(a)),
                    Dec(<<1>>, -8)) >= 0
         THEN FALSE
    ELSE FLe(FAbs(FSub(a, b)), TOL)

\* _eq(a, b): abs(a - b) <= TOL
_eq(a, b) ==
    IF a.kind # "fin" \/ b.kind # "fin" THEN FALSE ELSE NearFin(a, b)

\* The record text add_or_merge_line builds:
\* f"G1 X{fmt_number(str(xn))} Y{fmt_number(str(yn))}", or OverflowError when
\* fmt_number raises it.
new_text(xn, yn) ==
    LET Record(x, y) ==
            IF x = OverflowError \/ y = OverflowError THEN OverflowError
            ELSE <<"G", "1", " ", "X">> \o x \o <<" ", "Y">> \o y
    IN  Record(fmt_number(FloatStr(xn)), fmt_number(FloatStr(yn)))

\* ------------------------------------------------------------ global state

VARIABLES
    gcode_lines,    \* the document: a sequence of record texts
    last_snapshot,  \* None, or <<copy of gcode_lines>> taken by snapshot()
    pc,             \* "idle" between handlers, "loop" inside loop_block's while
    base_block,     \* loop_block: the parsed base moves <<x, y>>
    max_x,          \* loop_block: None or <<limit>>
    max_y,          \* loop_block: None or <<limit>>
    dx,             \* loop_block: offset per group in X
    dy,             \* loop_block: offset per group in Y
    k,              \* loop_block: number of the group being built
    appended,       \* loop_block: groups appended so far
    op              \* the handler that ran last: its name, its inputs, the document
                    \* it started from, the message box it showed, what it produced;
                    \* a dialog the user cancels leaves no trace

vars == <<gcode_lines, last_snapshot, pc, base_block, max_x, max_y, dx, dy, k, appended, op>>

loop_locals == <<base_block, max_x, max_y, dx, dy, k, appended>>

\* The record of a handler run.
Ran(name, args, msg, out) ==
    [name |-> name, args |-> args, before |-> gcode_lines, msg |-> msg, out |-> out]

\* Mutation of snapshot: nothing is kept.
snapshot_not_kept(lines) == None

\* snapshot(): last_snapshot = list(gcode_lines)
snapshot(lines) == <<lines>>

\* restore_snapshot(): the document after it; unchanged when there is no snapshot.
restore_snapshot(lines, snap) == IF snap = None THEN lines ELSE snap[1]

\* ---------------------------------------------------------- core add/merge

\* Mutation of place_line: the vertical run is not recognised.
place_line_horizontal_only(lines, last_xy, prev_xy, xn, yn, text) ==
    IF last_xy # None /\ prev_xy # None /\ _eq(last_xy[2], yn) /\ _eq(prev_xy[2], yn)
    THEN [lines EXCEPT ![Len(lines)] = text]
    ELSE Append(lines, text)

\* Mutation of place_line: a merge overwrites the record before the last one.
place_line_overwrite_prev(lines, last_xy, prev_xy, xn, yn, text) ==
    IF last_xy # None /\ prev_xy # None /\ _eq(last_xy[2], yn) /\ _eq(prev_xy[2], yn)
    THEN [lines EXCEPT ![Len(lines) - 1] = text]
    ELSE IF last_xy # None /\ prev_xy # None /\ _eq(last_xy[1], xn) /\ _eq(prev_xy[1], xn)
         THEN [lines EXCEPT ![Len(lines) - 1] = text]
         ELSE Append(lines, text)

\* add_or_merge_line once last_xy, prev_xy and new_text are known: the horizontal
\* run (_eq(last_xy[1], y) and _eq(prev_xy[1], y), index 2 here) is tested before
\* the vertical one, and either one replaces the last record.
place_line(lines, last_xy, prev_xy, xn, yn, text) ==
    IF last_xy # None /\ prev_xy # None /\ \A p \in {last_xy, prev_xy} : _eq(p[2], yn)
    THEN [lines EXCEPT ![Len(lines)] = text]
    ELSE IF last_xy # None /\ prev_xy # None /\ \A p \in {last_xy, prev_xy} : _eq(p[1], xn)
         THEN [lines EXCEPT ![Len(lines)] = text]
         ELSE Append(lines, text)

\* add_or_merge_line(xn, yn) raises: new_text is built first, and fmt_number
\* raises OverflowError for an infinite coordinate.
add_raises(xn, yn) == new_text(xn, yn) = OverflowError

\* last_xy and prev_xy: the last record of the document and the one before it,
\* parsed, each None when the document has no such record.
last_two(lines) ==
    [j \in 1..2 |-> IF Len(lines) >= j THEN parse_g1_xy(lines[Len(lines) + 1 - j]) ELSE None]

\* add_or_merge_line(xn, yn) once new_text is built: the document after it, which
\* is lines itself when building new_text raised.
merge_text(lines, xn, yn, text, tail) ==
    IF text = OverflowError THEN lines
    ELSE place_line(lines, tail[1], tail[2], xn, yn, text)

\* add_or_merge_line(xn, yn) on the document lines
add_or_merge_line(lines, xn, yn) ==
    merge_text(lines, xn, yn, new_text(xn, yn), last_two(lines))

\* for xn, yn in moves: add_or_merge_line(xn, yn) raises at one of the moves.
any_raises(moves) == \E i \in 1..Len(moves) : add_raises(moves[i][1], moves[i][2])

\* for xn, yn in moves: add_or_merge_line(xn, yn); the document when the for is
\* left, at its end or by the first call that raises.
RECURSIVE add_all(_, _)
add_rest(lines, moves, text) ==
    IF text = OverflowError THEN lines
    ELSE add_all(merge_text(lines, Head(moves)[1], Head(moves)[2], text, last_two(lines)),
                 Tail(moves))

add_all(lines, moves) ==
    IF moves = <<>> THEN lines
    ELSE add_rest(lines, moves, new_text(Head(moves)[1], Head(moves)[2]))

\* ------------------------------------------------------------------ inputs

\* What the user may have typed into the X and Y entries when Submit is pressed.
SubmitInputs == {
    [x |-> <<"0">>, y |-> <<"0">>],
    [x |-> <<"5">>, y |-> <<"0">>],
    [x |-> <<"5">>, y |-> <<" ", "5", ".", "0">>],
    [x |-> <<>>,    y |-> <<"0">>],
    [x |-> <<"0">>, y |-> <<"y">>],
    [x |-> <<"i", "n", "f">>, y |-> <<"0">>] }

\* ----------------------------------------------------------------- actions

\* Mutation of submit_line: a snapshot that exists is not overwritten.
SubmitLine_keep_first ==
    /\ pc = "idle"
    /\ \E in \in SubmitInputs :
        \E x_txt \in {fmt_number(in.x)}, y_txt \in {fmt_number(in.y)} :
            IF x_txt = OverflowError \/ y_txt = OverflowError
            THEN /\ op' = Ran("submit", <<in.x, in.y>>, "OverflowError", <<>>)
                 /\ UNCHANGED <<gcode_lines, last_snapshot>>
            ELSE IF x_txt = <<>> \/ y_txt = <<>>
            THEN /\ op' = Ran("submit", <<in.x, in.y>>, "Missing values", <<>>)
                 /\ UNCHANGED <<gcode_lines, last_snapshot>>
            ELSE \E new \in {add_or_merge_line(gcode_lines, ParseFloat(x_txt)[1],
                                                ParseFloat(y_txt)[1])} :
                     /\ Len(new) <= MaxLen
                     /\ last_snapshot' = IF last_snapshot = None
                                         THEN snapshot(gcode_lines) ELSE last_snapshot
                     /\ gcode_lines' = new
                     /\ op' = Ran("submit", <<in.x, in.y>>, "", <<>>)
    /\ UNCHANGED <<pc, loop_locals>>

\* submit_line
SubmitLine ==
    /\ pc = "idle"
    /\ \E in \in SubmitInputs :
        \E x_txt \in {fmt_number(in.x)}, y_txt \in {fmt_number(in.y)} :
            IF x_txt = OverflowError \/ y_txt = OverflowError
            THEN /\ op' = Ran("submit", <<in.x, in.y>>, "OverflowError", <<>>)
                 /\ UNCHANGED <<gcode_lines, last_snapshot>>
            ELSE IF x_txt = <<>> \/ y_txt = <<>>
            THEN /\ op' = Ran("submit", <<in.x, in.y>>, "Missing values", <<>>)
                 /\ UNCHANGED <<gcode_lines, last_snapshot>>
            ELSE \E new \in {add_or_merge_line(gcode_lines, ParseFloat(x_txt)[1],
                                                ParseFloat(y_txt)[1])} :
                     /\ Len(new) <= MaxLen
                     /\ last_snapshot' = snapshot(gcode_lines)
                     /\ gcode_lines' = new
                     /\ op' = Ran("submit", <<in.x, in.y>>, "", <<>>)
    /\ UNCHANGED <<pc, loop_locals>>

\* Mutation of undo_last: the document that is undone is kept as the snapshot, so
\* that a second undo brings it back.
UndoLast_toggle ==
    /\ pc = "idle"
    /\ gcode_lines' = restore_snapshot(gcode_lines, last_snapshot)
    /\ last_snapshot' = IF last_snapshot = None THEN None ELSE snapshot(gcode_lines)
    /\ op' = Ran("undo", <<>>, "", <<>>)
    /\ UNCHANGED <<pc, loop_locals>>

\* undo_last
UndoLast ==
    /\ pc = "idle"
    /\ gcode_lines' = restore_snapshot(gcode_lines, last_snapshot)
    /\ op' = Ran("undo", <<>>, "", <<>>)
    /\ UNCHANGED <<last_snapshot, pc, loop_locals>>

\* The orders in which the user may have picked the positions of the set S in the
\* listbox: every listing of S without repetition.
Listings(S) ==
    {p \in [1..Cardinality(S) -> S] : \A i, j \in 1..Cardinality(S) : i # j => p[i] # p[j]}

\* The indices of the set S in ascending order, as curselection() returns them
\* whatever the order they were picked in.
RECURSIVE Ascending(_)
Ascending(S) ==
    IF S = {} THEN <<>>
    ELSE LET m == CHOOSE i \in S : \A j \in S : j <= i
         IN  Append(Ascending(S \ {m}), m)

\* del lines[idx] (idx counted from 1)
DeleteAt(lines, idx) == SubSeq(lines, 1, idx - 1) \o SubSeq(lines, idx + 1, Len(lines))

\* Mutation of delete_reversed: the positions are deleted from the lowest up.
RECURSIVE delete_forward(_, _)
delete_forward(lines, sel) ==
    IF sel = <<>> THEN lines
    ELSE delete_forward(DeleteAt(lines, sel[1]), SubSeq(sel, 2, Len(sel)))

\* for idx in reversed(sel): del gcode_lines[idx]
RECURSIVE delete_reversed(_, _)
delete_reversed(lines, sel) ==
    IF sel = <<>> THEN lines
    ELSE delete_reversed(DeleteAt(lines, sel[Len(sel)]), SubSeq(sel, 1, Len(sel) - 1))

\* Mutation of remove_selected: the snapshot is taken before the selection is
\* looked at.
RemoveSelected_snapshot_first ==
    /\ pc = "idle"
    /\ \E S \in SUBSET (1..Len(gcode_lines)) : \E picked \in Listings(S) :
        LET sel == Ascending(S)
        IN  /\ last_snapshot' = snapshot(gcode_lines)
            /\ gcode_lines' = delete_reversed(gcode_lines, sel)
            /\ op' = Ran("remove", picked, "", <<>>)
    /\ UNCHANGED <<pc, loop_locals>>

\* remove_selected; picked is the selection in the order the user made it, S the
\* set of its positions, sel what curselection() returns for it.
RemoveSelected ==
    /\ pc = "idle"
    /\ \E S \in SUBSET (1..Len(gcode_lines)) : \E picked \in Listings(S) :
        LET sel == Ascending(S)
        IN  IF sel = <<>>
            THEN /\ op' = Ran("remove", picked, "", <<>>)
                 /\ UNCHANGED <<gcode_lines, last_snapshot>>
            ELSE /\ last_snapshot' = snapshot(gcode_lines)
                 /\ gcode_lines' = delete_reversed(gcode_lines, sel)
                 /\ op' = Ran("remove", picked, "", <<>>)
    /\ UNCHANGED <<pc, loop_locals>>

\* clear_all_lines; confirmed is the answer to the "Clear all" question, which is
\* asked only of a document that has records.
ClearAllLines ==
    /\ pc = "idle"
    /\ IF gcode_lines = <<>>
       THEN /\ op' = Ran("clear", <<>>, "", <<>>)
            /\ UNCHANGED <<gcode_lines, last_snapshot>>
       ELSE \E confirmed \in BOOLEAN :
            IF ~confirmed
            THEN UNCHANGED <<gcode_lines, last_snapshot, op>>
            ELSE /\ last_snapshot' = snapshot(gcode_lines)
                 /\ gcode_lines' = <<>>
                 /\ op' = Ran("clear", <<confirmed>>, "", <<>>)
    /\ UNCHANGED <<pc, loop_locals>>

\* Mutation of lines_to_save: the feed is added to every record.
lines_to_save_feed_all(lines) ==
    <<<<"M", "3">>>>
        \o [i \in 1..Len(lines) |-> lines[i] \o <<" ", "F", "2", "0", "0">>]
        \o <<<<"M", "5">>>>

\* save_gcode: lines_to_save for a non-empty document.
lines_to_save(lines) ==
    LET first0 == lines[1]
        first  == IF ~Contains(first0, <<" ", "F">>) /\ ~Contains(first0, <<"\t", "F">>)
                  THEN first0 \o <<" ", "F", "2", "0", "0">>
                  ELSE first0
    IN  <<<<"M", "3">>, first>> \o Tail(lines) \o <<<<"M", "5">>>>

\* save_gcode; dialog is what the file dialog (shown only for a document that has
\* records) and the write do: the user cancels, the file is written, or the write
\* raises. The lines written are the handler's output.
SaveGcode ==
    /\ pc = "idle"
    /\ IF gcode_lines = <<>>
       THEN op' = Ran("save", <<>>, "Nothing to save", <<>>)
       ELSE \E dialog \in {"cancel", "written", "ioerror"} :
            CASE dialog = "cancel"  -> UNCHANGED op
              [] dialog = "written" ->
                    op' = Ran("save", <<dialog>>, "Saved", lines_to_save(gcode_lines))
              [] dialog = "ioerror" -> op' = Ran("save", <<dialog>>, "Error", <<>>)
    /\ UNCHANGED <<gcode_lines, last_snapshot, pc, loop_locals>>

\* "G1 X<x> Y<y>", to write the files below
G1(x, y) == <<"G", "1", " ", "X">> \o x \o <<" ", "Y">> \o y

\* The files the user may pick in the import dialog, each a sequence of raw lines
\* as readlines() returns them.
Files == <<
    \* an exported file: spindle tokens, a feed field, lower case, a comma, a comment
    <<<<"M", "3", "\n">>, G1(<<"0">>, <<"0">>) \o <<" ", "F", "2", "0", "0", "\n">>,
      <<"g", "1", " ", "x", "1", ",", "y", "0", " ", ";", " ", "c", "u", "t", "\n">>,
      <<"m", "5">>>>,
    \* no usable move: a comment, a blank line, no Y, a malformed X
    <<<<"#", " ", "n", "o", "t", "e", "\n">>, <<"\n">>, <<"G", "1", " ", "X", "1", "\n">>,
      <<"G", "1", " ", "X", "a", " ", "Y", "1">>>>,
    \* coordinates that float() reads as a nan and as an infinity, then a move
    <<G1(<<"n", "a", "n">>, <<"0">>) \o <<"\n">>, G1(<<"i", "n", "f">>, <<"0">>) \o <<"\n">>,
      G1(<<"1">>, <<"0">>)>>
>>

\* Mutation of scan_lines: the first line that yields no move ends the scan.
RECURSIVE scan_lines_abort(_, _, _)
scan_lines_abort(raw_lines, parsed, skipped) ==
    IF raw_lines = <<>>
    THEN [parsed |-> parsed, skipped |-> skipped]
    ELSE LET xy == parse_g1_xy(Head(raw_lines))
         IN  IF xy = None
             THEN [parsed |-> parsed, skipped |-> skipped + 1]
             ELSE scan_lines_abort(Tail(raw_lines), Append(parsed, xy), skipped)

\* load_gcode's scan of raw_lines: the parsed moves in order and the skipped count.
RECURSIVE scan_lines(_, _, _)
scan_lines(raw_lines, parsed, skipped) ==
    LET Scanned(xy) ==
            IF xy = None
            THEN scan_lines(Tail(raw_lines), parsed, skipped + 1)
            ELSE scan_lines(Tail(raw_lines), Append(parsed, xy), skipped)
    IN  IF raw_lines = <<>>
        THEN [parsed |-> parsed, skipped |-> skipped]
        ELSE Scanned(parse_g1_xy(Head(raw_lines)))

\* Mutation of load_scanned: without replace the imported run is built on its own
\* and then joined to the document.
load_scanned_concat(path, r) ==
    IF r.parsed = <<>>
    THEN /\ op' = Ran("load", <<path>>, "No X/Y found", <<>>)
         /\ UNCHANGED <<gcode_lines, last_snapshot>>
    ELSE \E do_replace \in BOOLEAN :
            /\ Len(add_all(IF do_replace THEN <<>> ELSE gcode_lines, r.parsed)) <= MaxLen
            /\ last_snapshot' = snapshot(gcode_lines)
            /\ gcode_lines' = (IF do_replace THEN <<>> ELSE gcode_lines)
                                  \o add_all(<<>>, r.parsed)
            /\ op' = IF any_raises(r.parsed)
                     THEN Ran("load", <<path, do_replace>>, "OverflowError", <<>>)
                     ELSE Ran("load", <<path, do_replace>>, "Loaded",
                              <<Len(r.parsed), r.skipped>>)

\* load_gcode once the file is read and scanned into r; do_replace is the answer
\* to "Replace current lines?". The snapshot and the clear come before the moves
\* are added; a move that raises ends the handler without the "Loaded" message.
load_scanned(path, r) ==
    IF r.parsed = <<>>
    THEN /\ op' = Ran("load", <<path>>, "No X/Y found", <<>>)
         /\ UNCHANGED <<gcode_lines, last_snapshot>>
    ELSE \E do_replace \in BOOLEAN :
         \E new \in {add_all(IF do_replace THEN <<>> ELSE gcode_lines, r.parsed)} :
            /\ Len(new) <= MaxLen
            /\ last_snapshot' = snapshot(gcode_lines)
            /\ gcode_lines' = new
            /\ op' = IF any_raises(r.parsed)
                     THEN Ran("load", <<path, do_replace>>, "OverflowError", <<>>)
                     ELSE Ran("load", <<path, do_replace>>, "Loaded",
                              <<Len(r.parsed), r.skipped>>)

\* load_gcode; path is 0 when the dialog is cancelled, the number of the file
\* picked, or one more than the last file for a path that cannot be read.
LoadGcode ==
    /\ pc = "idle"
    /\ \E path \in 0..(Len(Files) + 1) :
        IF path = 0
        THEN UNCHANGED <<gcode_lines, last_snapshot, op>>
        ELSE IF path > Len(Files)
        THEN /\ op' = Ran("load", <<path>>, "Error", <<>>)
             /\ UNCHANGED <<gcode_lines, last_snapshot>>
        ELSE load_scanned(path, scan_lines(Files[path], <<>>, 0))
    /\ UNCHANGED <<pc, loop_locals>>

\* What the user may have typed into the dX, dY, Max X and Max Y entries.
LoopInputs == {
    [dx |-> <<"2">>,      dy |-> <<"0">>, max_x |-> <<"5">>, max_y |-> <<>>],
    [dx |-> <<"-", "1">>, dy |-> <<"0">>, max_x |-> <<"5">>, max_y |-> <<>>],
    [dx |-> <<"0">>,      dy |-> <<>>,    max_x |-> <<>>,    max_y |-> <<"5">>],
    [dx |-> <<>>,         dy |-> <<"5">>, max_x |-> <<"1", "0">>, max_y |-> <<"5">>],
    [dx |-> <<"2">>,      dy |-> <<"0">>, max_x |-> <<>>,    max_y |-> <<"?">>],
    [dx |-> <<"i", "n", "f">>, dy |-> <<"0">>, max_x |-> <<>>, max_y |-> <<"5">>] }

\* loop_block's base block: every record parsed, or None at the first that is not.
RECURSIVE parse_block(_, _)
parse_block(lines, block) ==
    LET Parsed(xy) == IF xy = None THEN None ELSE parse_block(Tail(lines), Append(block, xy))
    IN  IF lines = <<>> THEN <<block>> ELSE Parsed(parse_g1_xy(Head(lines)))

\* loop_block up to its while: the checks, the base block, the snapshot.
LoopBlock ==
    /\ pc = "idle"
    /\ \E in \in LoopInputs :
        \E mx \in {parse_float(in.max_x, None)}, my \in {parse_float(in.max_y, None)},
           base \in {parse_block(gcode_lines, <<>>)},
           args \in {<<in.dx, in.dy, in.max_x, in.max_y>>} :
            IF gcode_lines = <<>>
            THEN /\ op' = Ran("loop", args, "Nothing to loop", <<>>)
                 /\ UNCHANGED <<gcode_lines, last_snapshot, pc, loop_locals>>
            ELSE IF mx = None /\ my = None
            THEN /\ op' = Ran("loop", args, "No limits", <<>>)
                 /\ UNCHANGED <<gcode_lines, last_snapshot, pc, loop_locals>>
            ELSE IF base = None
            THEN /\ op' = Ran("loop", args, "Parse error", <<>>)
                 /\ UNCHANGED <<gcode_lines, last_snapshot, pc, loop_locals>>
            ELSE /\ max_x' = mx
                 /\ max_y' = my
                 /\ dx' = parse_float(in.dx, <<Flt(0)>>)[1]
                 /\ dy' = parse_float(in.dy, <<Flt(0)>>)[1]
                 /\ base_block' = base[1]
                 /\ last_snapshot' = snapshot(gcode_lines)
                 /\ k' = 1
                 /\ appended' = 0
                 /\ pc' = "loop"
                 /\ op' = Ran("loop", args, "", <<>>)
                 /\ UNCHANGED gcode_lines

\* Mutation of scan_group: a move over a limit ends the scan without setting
\* violates, so the moves before it are written.
RECURSIVE scan_group_partial(_, _, _, _, _, _, _)
scan_group_partial(block, ddx, ddy, kk, mx, my, next_group) ==
    IF block = <<>>
    THEN [next_group |-> next_group, violates |-> FALSE]
    ELSE LET xn == FAdd(Head(block)[1], FTimes(ddx, kk))
             yn == FAdd(Head(block)[2], FTimes(ddy, kk))
         IN  IF (mx # None /\ FGt(xn, mx[1])) \/ (my # None /\ FGt(yn, my[1]))
             THEN [next_group |-> next_group, violates |-> FALSE]
             ELSE scan_group_partial(Tail(block), ddx, ddy, kk, mx, my,
                                     Append(next_group, <<xn, yn>>))

\* Mutation of scan_group: a move that lies on a limit counts as over it.
RECURSIVE scan_group_inclusive(_, _, _, _, _, _, _)
scan_group_inclusive(block, ddx, ddy, kk, mx, my, next_group) ==
    IF block = <<>>
    THEN [next_group |-> next_group, violates |-> FALSE]
    ELSE LET xn == FAdd(Head(block)[1], FTimes(ddx, kk))
             yn == FAdd(Head(block)[2], FTimes(ddy, kk))
         IN  IF (mx # None /\ FLe(mx[1], xn)) \/ (my # None /\ FLe(my[1], yn))
             THEN [next_group |-> next_group, violates |-> TRUE]
             ELSE scan_group_inclusive(Tail(block), ddx, ddy, kk, mx, my,
                                       Append(next_group, <<xn, yn>>))

\* The for over base_block in the while's body: next_group as far as it was built
\* and whether a limit was exceeded (the scan breaks at the first move over a limit).
RECURSIVE scan_group(_, _, _, _, _, _, _)
scan_group(block, ddx, ddy, kk, mx, my, next_group) ==
    LET At(xn, yn) ==
            IF (mx # None /\ FGt(xn, mx[1])) \/ (my # None /\ FGt(yn, my[1]))
            THEN [next_group |-> next_group, violates |-> TRUE]
            ELSE scan_group(Tail(block), ddx, ddy, kk, mx, my,
                            Append(next_group, <<xn, yn>>))
    IN  IF block = <<>>
        THEN [next_group |-> next_group, violates |-> FALSE]
        ELSE At(FAdd(Head(block)[1], FTimes(ddx, kk)),
                FAdd(Head(block)[2], FTimes(ddy, kk)))

\* loop_block is left, by its break or by an exception: the run in op gets the
\* message shown (or the exception) and the count, and the locals are gone.
loop_returns(msg, out) ==
    /\ pc' = "idle"
    /\ op' = [op EXCEPT !.out = out, !.msg = msg]
    /\ base_block' = <<>>
    /\ max_x' = None
    /\ max_y' = None
    /\ dx' = Flt(0)
    /\ dy' = Flt(0)
    /\ k' = 0
    /\ appended' = 0

\* Mutation of LoopIter: group k is computed from the records the document has
\* at the start of the pass instead of from base_block.
LoopIter_from_document ==
    /\ pc = "loop"
    /\ \E g \in {scan_group(parse_block(gcode_lines, <<>>)[1], dx, dy, k, max_x, max_y, <<>>)} :
           IF g.violates \/ g.next_group = <<>>
           THEN /\ loop_returns(IF appended = 0 THEN "Loop" ELSE "", <<appended>>)
                /\ UNCHANGED <<gcode_lines, last_snapshot>>
           ELSE \E new \in {add_all(gcode_lines, g.next_group)} :
                    /\ k <= MaxK
                    /\ Len(new) <= MaxLen
                    /\ gcode_lines' = new
                    /\ IF any_raises(g.next_group)
                       THEN /\ loop_returns("OverflowError", <<>>)
                            /\ UNCHANGED last_snapshot
                       ELSE /\ appended' = appended + 1
                            /\ k' = k + 1
                            /\ UNCHANGED <<last_snapshot, pc, base_block, max_x, max_y,
                                           dx, dy, op>>

\* One pass of loop_block's while: build group k; either append it whole and go on,
\* or break, report and return, or leave by the exception of a move that raises,
\* with the moves of the group before it written.
LoopIter ==
    /\ pc = "loop"
    /\ \E g \in {scan_group(base_block, dx, dy, k, max_x, max_y, <<>>)} :
           IF g.violates \/ g.next_group = <<>>
           THEN /\ loop_returns(IF appended = 0 THEN "Loop" ELSE "", <<appended>>)
                /\ UNCHANGED <<gcode_lines, last_snapshot>>
           ELSE \E new \in {add_all(gcode_lines, g.next_group)} :
                    /\ k <= MaxK
                    /\ Len(new) <= MaxLen
                    /\ gcode_lines' = new
                    /\ IF any_raises(g.next_group)
                       THEN /\ loop_returns("OverflowError", <<>>)
                            /\ UNCHANGED last_snapshot
                       ELSE /\ appended' = appended + 1
                            /\ k' = k + 1
                            /\ UNCHANGED <<last_snapshot, pc, base_block, max_x, max_y,
                                           dx, dy, op>>

\* ------------------------------------------------------------ specification

Init ==
    /\ gcode_lines = <<>>
    /\ last_snapshot = None
    /\ pc = "idle"
    /\ base_block = <<>>
    /\ max_x = None
    /\ max_y = None
    /\ dx = Flt(0)
    /\ dy = Flt(0)
    /\ k = 0
    /\ appended = 0
    /\ op = [name |-> "start", args |-> <<>>, before |-> <<>>, msg |-> "", out |-> <<>>]

Next ==
    \/ SubmitLine
    \/ UndoLast
    \/ RemoveSelected
    \/ ClearAllLines
    \/ SaveGcode
    \/ LoadGcode
    \/ LoopBlock
    \/ LoopIter

Spec == Init /\ [][Next]_vars

\* ------------------------------------------------- appends on their own

\* The moves handed to add_or_merge_line below: whole coordinates, and a Y of
\* 0.0000004 as a file or a loop offset can supply it.
AppendXs == {Flt(0), Flt(5), Flt(10)}

AppendYs == {Flt(0), Flt(5), FltDec(4, -7)}

\* add_or_merge_line(xn, yn) called on its own, as load_gcode and loop_block call
\* it move after move.
AppendMove ==
    /\ pc = "idle"
    /\ \E xn \in AppendXs, yn \in AppendYs :
       \E new \in {add_or_merge_line(gcode_lines, xn, yn)} :
        /\ Len(new) <= MaxAppendLen
        /\ gcode_lines' = new
        /\ op' = Ran("append", <<xn, yn>>, "", <<>>)
    /\ UNCHANGED <<last_snapshot, pc, loop_locals>>

AppendNext == AppendMove

\* Any sequence of appends to a document that starts empty.
AppendSpec == Init /\ [][AppendNext]_vars

\* ------------------------------------------- removes from a longer document

\* The state after a file of the four moves (0,0), (5,5), (10,0), (0,5) has been
\* imported into the empty document: load_gcode took the snapshot of the empty
\* document and fed the moves through add_or_merge_line, which merged none.
RemoveInit ==
    /\ gcode_lines = add_all(<<>>, <<<<Flt(0), Flt(0)>>, <<Flt(5), Flt(5)>>,
                                     <<Flt(10), Flt(0)>>, <<Flt(0), Flt(5)>>>>)
    /\ last_snapshot = snapshot(<<>>)
    /\ pc = "idle"
    /\ base_block = <<>>
    /\ max_x = None
    /\ max_y = None
    /\ dx = Flt(0)
    /\ dy = Flt(0)
    /\ k = 0
    /\ appended = 0
    /\ op = [name |-> "load", args |-> <<>>, before |-> <<>>, msg |-> "Loaded",
             out |-> <<4, 0>>]

\* Any sequence of removes from that document, each with any selection picked in
\* any order.
RemoveSpec == RemoveInit /\ [][RemoveSelected]_vars

\* -------------------------------------------------- the scan on its own

\* The raw lines a file under ScanSpec is made of: three moves (one in lower case
\* with a comma and a comment, one whose Y token begins with U+1E99, the upper
\* case of which begins with Y), two spindle tokens, a line with a malformed X.
RawLines == {
    G1(<<"0">>, <<"0">>) \o <<"\n">>,
    <<"g", "1", " ", "x", "5", ",", "y", "5", " ", ";", " ", "c", "u", "t", "\n">>,
    <<"M", "3", "\n">>,
    <<"m", "5">>,
    <<"G", "1", " ", "X", "a", " ", "Y", "1", "\n">>,
    <<"X", "1", " ", "ẙ", "5", "\n">> }

\* load_gcode's scan run on a file that is one raw line longer than the last one.
ScanFile ==
    /\ pc = "idle"
    /\ Len(op.args) < MaxFile
    /\ \E ln \in RawLines :
        op' = [name |-> "scan", args |-> Append(op.args, ln), before |-> <<>>,
               msg |-> "", out |-> scan_lines(Append(op.args, ln), <<>>, 0)]
    /\ UNCHANGED <<gcode_lines, last_snapshot, pc, loop_locals>>

ScanNext == ScanFile

\* load_gcode's scan of every file of at most MaxFile raw lines.
ScanSpec == Init /\ [][ScanNext]_vars

\* ------------------------------------------------ fmt_number on its own

\* The texts handed to fmt_number under FmtSpec: an optional sign, an integer
\* part, an optional fraction of up to 7 digits, optional blanks around it; texts
\* that are no number; and the texts of OddTexts.
FmtSigns == {<<>>, <<"-">>}

FmtInts == {<<"0">>, <<"1">>, <<"1", "2">>}

FmtFracs == {
    <<>>,
    <<".", "0">>,
    <<".", "5">>,
    <<".", "2", "5", "0">>,
    <<".", "1", "2", "3", "4", "5", "6">>,
    <<".", "1", "2", "3", "4", "5", "6", "7">>,
    <<".", "0", "0", "0", "0", "0", "0", "4">>,
    <<".", "9", "9", "9", "9", "9", "9", "9">>,
    <<"e", "1">> }

FmtPads == {<<>>, <<" ">>}

\* Numbers whose 7th decimal is a final 5 (the double decides which way they are
\* rounded), numbers of more than 7 decimals, a whole number beyond 2^53, an
\* underscore between digits, a no-break space as padding, digits of another
\* script, infinities and a nan.
OddTexts == {
    <<"0", ".", "0", "0", "0", "0", "0", "2", "5">>,
    <<"0", ".", "0", "0", "0", "0", "0", "3", "5">>,
    <<"1", ".", "0", "0", "0", "0", "0", "0", "5">>,
    <<"2", ".", "6", "7", "5", "0", "0", "0", "5">>,
    <<"1", ".", "0", "0", "0", "0", "0", "0", "0", "0", "0", "1">>,
    <<"1", "e", "-", "9">>,
    <<"-", "1", "e", "-", "9">>,
    <<"1", "E", "2", "2">>,
    <<"1", "_", "0">>,
    <<"_", "1">>,
    <<" ", "5">>,
    <<"߃", ".", "৫">>,
    <<"i", "n", "f">>,
    <<"-", "I", "n", "f", "i", "n", "i", "t", "y">>,
    <<"n", "a", "n">> }

NumberTexts ==
    {pad \o sign \o ip \o fp \o pad :
        pad \in FmtPads, sign \in FmtSigns, ip \in FmtInts, fp \in FmtFracs}
    \cup {<<>>, <<" ">>, <<"a">>, <<"1", ".", "2", ".", "3">>, <<"-">>}
    \cup OddTexts

\* fmt_number(s) called on its own.
FmtNumber ==
    /\ pc = "idle"
    /\ \E t \in NumberTexts :
        op' = [name |-> "fmt", args |-> t, before |-> <<>>, msg |-> "",
               out |-> fmt_number(t)]
    /\ UNCHANGED <<gcode_lines, last_snapshot, pc, loop_locals>>

FmtNext == FmtNumber

\* fmt_number on every text of NumberTexts.
FmtSpec == Init /\ [][FmtNext]_vars

\* ------------------------------------------------------------------ claims

\* The coordinates a record of the document reads as.
RecX(line) == parse_g1_xy(line)[1]

RecY(line) == parse_g1_xy(line)[2]

\* The last two records of lines both have Y equal to yn / X equal to xn.
LastTwoShareY(lines, yn) ==
    /\ Len(lines) >= 2
    /\ _eq(RecY(lines[Len(lines)]), yn)
    /\ _eq(RecY(lines[Len(lines) - 1]), yn)

LastTwoShareX(lines, xn) ==
    /\ Len(lines) >= 2
    /\ _eq(RecX(lines[Len(lines)]), xn)
    /\ _eq(RecX(lines[Len(lines) - 1]), xn)

\* An append step whose move continues the run of the last two records overwrites
\* the last record with the new record and changes nothing else.
C1_Step ==
    (op'.name = "append"
        /\ (LastTwoShareY(gcode_lines, op'.args[2]) \/ LastTwoShareX(gcode_lines, op'.args[1])))
    => /\ Len(gcode_lines') = Len(gcode_lines)
       /\ gcode_lines'[Len(gcode_lines)] = new_text(op'.args[1], op'.args[2])
       /\ \A i \in 1..(Len(gcode_lines) - 1) : gcode_lines'[i] = gcode_lines[i]

\* Appending (0,0), (5,0), (10,0) to an empty document leaves G1 X0 Y0, G1 X10 Y0.
C1_Example ==
    add_all(<<>>, <<<<Flt(0), Flt(0)>>, <<Flt(5), Flt(0)>>, <<Flt(10), Flt(0)>>>>)
        = <<G1(<<"0">>, <<"0">>), G1(<<"1", "0">>, <<"0">>)>>

\* C1: merge-on-append. When the document has at least two records and the last
\* two both have Y equal to the new move's Y (or both have X equal to its X), the
\* append overwrites the last record with the new record and the length does not
\* change; appending (0,0), (5,0), (10,0) to an empty document yields exactly
\* G1 X0 Y0 and G1 X10 Y0.
C1_MergeOnAppend == C1_Example /\ [][C1_Step]_vars

\* C1 witness: the third append of the example has just overwritten G1 X5 Y0, and
\* the document is the two records of the example.
C1_Witness ==
    /\ op.name = "append"
    /\ op.args = <<Flt(10), Flt(0)>>
    /\ op.before = <<G1(<<"0">>, <<"0">>), G1(<<"5">>, <<"0">>)>>
    /\ gcode_lines = <<G1(<<"0">>, <<"0">>), G1(<<"1", "0">>, <<"0">>)>>

\* Three consecutive records of lines, starting at i, share Y / share X.
ThreeShareY(lines, i) ==
    /\ FCmp(RecY(lines[i]), RecY(lines[i + 1])) = 0
    /\ FCmp(RecY(lines[i + 1]), RecY(lines[i + 2])) = 0

ThreeShareX(lines, i) ==
    /\ FCmp(RecX(lines[i]), RecX(lines[i + 1])) = 0
    /\ FCmp(RecX(lines[i + 1]), RecX(lines[i + 2])) = 0

\* C2: run invariant. After any sequence of appends to a document that starts
\* empty, no three consecutive records all share the same Y coordinate and no three
\* consecutive records all share the same X coordinate.
C2_RunInvariant ==
    \A i \in 1..(Len(gcode_lines) - 2) :
        ~ThreeShareY(gcode_lines, i) /\ ~ThreeShareX(gcode_lines, i)

\* The handler run o took a snapshot and did its work, to the end or, for an
\* import or a loop, as far as a move that raised.
Applied(o) ==
    \/ o.name = "submit" /\ o.msg = ""
    \/ o.name = "remove" /\ o.args # <<>>
    \/ o.name = "clear" /\ o.args # <<>>
    \/ o.name = "load" /\ o.msg \in {"Loaded", "OverflowError"}
    \/ o.name = "loop" /\ (o.out # <<>> \/ o.msg = "OverflowError")

\* C3: undo reverses the last mutation. For every document and every mutating
\* operation (submit, remove, clear, import, loop), the operation followed at once
\* by undo leaves the document holding exactly the records, in the same order, that
\* it held just before the operation.
C3_UndoReverses ==
    [][(op'.name = "undo" /\ Applied(op)) => gcode_lines' = op.before]_vars

\* C3 witness: an undo has just brought back a full document (MaxLen records) to
\* a document that an operation had emptied.
C3_Witness ==
    /\ op.name = "undo"
    /\ op.before = <<>>
    /\ Len(gcode_lines) = MaxLen
    /\ last_snapshot = <<gcode_lines>>

\* C4: undo is idempotent. An undo issued directly after an undo leaves the
\* document unchanged, and so does an undo when no snapshot has ever been taken.
C4_UndoIdempotent ==
    [][(op'.name = "undo" /\ (op.name = "undo" \/ last_snapshot = None))
        => gcode_lines' = gcode_lines]_vars

\* C4 witness: a second undo has run on the document the first undo had emptied
\* (the snapshot is the empty document a first operation started from, and nothing
\* but an undo empties a document without taking a new snapshot).
C4_Witness ==
    /\ op.name = "undo"
    /\ op.before = <<>>
    /\ gcode_lines = <<>>
    /\ last_snapshot = <<<<>>>>

\* The moves of group kk: every move of block shifted by kk times the offsets.
Shifted(block, ddx, ddy, kk) ==
    [i \in 1..Len(block) |-> <<FAdd(block[i][1], FTimes(ddx, kk)),
                                FAdd(block[i][2], FTimes(ddy, kk))>>]

\* The move m exceeds no limit that is set: its x is not greater than max_x and
\* its y is not greater than max_y.
WithinLimits(m, mx, my) ==
    /\ mx # None => ~FGt(m[1], mx[1])
    /\ my # None => ~FGt(m[2], my[1])

\* Every move of the running loop's group kk is within the limits that are set.
GroupWithin(kk) ==
    \A i \in 1..Len(base_block) :
        WithinLimits(Shifted(base_block, dx, dy, kk)[i], max_x, max_y)

\* C5: the loop appends only whole in-bound groups. A pass of the loop changes the
\* document only when every candidate of its group k is within the set bounds, and
\* then it feeds the whole group through append; no move of a group with a
\* candidate over a bound is written, so no partial group is.
C5_WholeGroupsOnly ==
    [][(pc = "loop" /\ gcode_lines' # gcode_lines)
        => /\ GroupWithin(k)
           /\ gcode_lines' = add_all(gcode_lines, Shifted(base_block, dx, dy, k))]_vars

\* C5 witness: the loop over the base (0,0), (5,0) with dx = 2 and max_x = 5 has
\* ended: in its first group (2,0) is within the bound and (7,0) is not, and nothing
\* was written.
C5_Witness ==
    /\ pc = "idle"
    /\ op.name = "loop"
    /\ op.args = <<<<"2">>, <<"0">>, <<"5">>, <<>>>>
    /\ op.before = <<G1(<<"0">>, <<"0">>), G1(<<"5">>, <<"0">>)>>
    /\ op.out = <<0>>
    /\ gcode_lines = op.before

\* The number of consecutive groups from j on that are within the bounds, plus
\* j - 1 (counted up to MaxK + 1 groups).
RECURSIVE ValidFrom(_)
ValidFrom(j) == IF j > MaxK + 1 \/ ~GroupWithin(j) THEN j - 1 ELSE ValidFrom(j + 1)

\* The moves of groups 1..n in order.
RECURSIVE GroupMoves(_)
GroupMoves(n) ==
    IF n = 0 THEN <<>> ELSE GroupMoves(n - 1) \o Shifted(base_block, dx, dy, n)

\* The moves the records of lines read as.
MovesOf(lines) == [i \in 1..Len(lines) |-> <<RecX(lines[i]), RecY(lines[i])>>]

\* The float is a real number: not an infinity, not a nan.
Real(f) == f.kind = "fin"

\* C6: loop group count. With a non-empty base, a bound set and real offsets, the
\* loop appends exactly the groups 1..K, K being the number of consecutive k from 1
\* for which every base move shifted by (dx*k, dy*k) is within the set bounds; it
\* reports K, and the document it leaves is the pre-loop document with those
\* groups' moves fed one by one through append.
C6_GroupCount ==
    [][(pc = "loop" /\ pc' = "idle" /\ Real(dx) /\ Real(dy))
        => /\ base_block = MovesOf(op.before)
           /\ op'.out = <<ValidFrom(1)>>
           /\ gcode_lines' = add_all(op.before, GroupMoves(ValidFrom(1)))]_vars

\* C6 witness: the loop over the base (0,0), (1,0) with dx = 2, dy = 0, max_x = 5
\* has ended and reports 2 groups.
C6_Witness ==
    /\ pc = "idle"
    /\ op.name = "loop"
    /\ op.args = <<<<"2">>, <<"0">>, <<"5">>, <<>>>>
    /\ op.before = <<G1(<<"0">>, <<"0">>), G1(<<"1">>, <<"0">>)>>
    /\ op.out = <<2>>
    /\ gcode_lines = <<G1(<<"0">>, <<"0">>), G1(<<"5">>, <<"0">>)>>

\* C7: loop termination. With a non-empty base and a nonzero offset in an axis
\* whose bound is set, the loop stops after finitely many groups. The loop stops
\* only at a group with a candidate over a bound, so it must never be at a group
\* within the bounds while no offset of a bounded axis is positive: from there every
\* later group is within the bounds too.
C7_LoopTerminates ==
    ~ /\ pc = "loop"
      /\ base_block # <<>>
      /\ Real(dx) /\ Real(dy)
      /\ (~IsZero(dx) /\ max_x # None) \/ (~IsZero(dy) /\ max_y # None)
      /\ GroupWithin(k)
      /\ max_x # None => FLe(dx, Flt(0))
      /\ max_y # None => FLe(dy, Flt(0))

\* C8: zero-offset guard. A loop with dx = 0 and dy = 0 is rejected: it appends no
\* group and the document stays as it was before the call.
C8_ZeroOffsetRejected ==
    (op.name = "loop" /\ IsZero(parse_float(op.args[1], <<Flt(0)>>)[1])
                      /\ IsZero(parse_float(op.args[2], <<Flt(0)>>)[1]))
    => /\ appended = 0
       /\ gcode_lines = op.before

\* float() rejects the text (an empty entry included).
Unparsable(text) == ParseFloat(text) = None

\* C9: rejected operations do not mutate. After submit with an unparsable X or Y,
\* loop with neither max_x nor max_y set, loop on an empty document and export of
\* an empty document, the handler has returned and the document holds exactly the
\* records it held before the call.
C9_RejectedUnchanged ==
    /\ (op.name = "submit" /\ (Unparsable(op.args[1]) \/ Unparsable(op.args[2])))
        => gcode_lines = op.before
    /\ (op.name = "loop" /\ Unparsable(op.args[3]) /\ Unparsable(op.args[4]))
        => (pc = "idle" /\ gcode_lines = op.before)
    /\ (op.name = "loop" /\ op.before = <<>>)
        => (pc = "idle" /\ gcode_lines = op.before)
    /\ (op.name = "save" /\ op.before = <<>>)
        => (gcode_lines = op.before /\ op.out = <<>>)

\* C9 witness: a submit whose Y entry is not a number has been turned down on a
\* document of two records.
C9_Witness ==
    /\ op.name = "submit"
    /\ op.args = <<<<"0">>, <<"y">>>>
    /\ op.msg = "Missing values"
    /\ Len(gcode_lines) = 2

\* The record has a feed field: a space or a tab followed by F.
HasFeed(rec) == \E i \in 1..(Len(rec) - 1) : rec[i] \in {" ", "\t"} /\ rec[i + 1] = "F"

\* out is the export of the non-empty document doc.
ExportOf(doc, out) ==
    /\ Len(out) = Len(doc) + 2
    /\ out[1] = <<"M", "3">>
    /\ out[2] = IF HasFeed(doc[1]) THEN doc[1] ELSE doc[1] \o <<" ", "F", "2", "0", "0">>
    /\ \A i \in 2..Len(doc) : out[i + 1] = doc[i]
    /\ out[Len(out)] = <<"M", "5">>

\* C10: export format. For a non-empty document the exported lines are M3, the
\* first record (with " F200" added only when it has no feed field), the other
\* records unchanged and in order, then M5: len(document) + 2 lines. For an empty
\* document export fails and produces no lines. For the single record G1 X1 Y2 the
\* output is M3, G1 X1 Y2 F200, M5.
C10_ExportFormat ==
    /\ op.name = "save" =>
        IF op.before = <<>>
        THEN op.out = <<>> /\ op.msg = "Nothing to save"
        ELSE op.msg = "Saved" => ExportOf(op.before, op.out)
    /\ lines_to_save(<<G1(<<"1">>, <<"2">>)>>)
        = <<<<"M", "3">>, G1(<<"1">>, <<"2">>) \o <<" ", "F", "2", "0", "0">>, <<"M", "5">>>>
    /\ ExportOf(<<G1(<<"1">>, <<"2">>) \o <<" ", "F", "9">>, G1(<<"0">>, <<"0">>)>>,
                lines_to_save(<<G1(<<"1">>, <<"2">>) \o <<" ", "F", "9">>, G1(<<"0">>, <<"0">>)>>))

\* C10 witness: a full document (MaxLen records) has been exported as MaxLen + 2
\* lines.
C10_Witness ==
    /\ op.name = "save"
    /\ op.msg = "Saved"
    /\ Len(op.before) = MaxLen
    /\ Len(op.out) = MaxLen + 2

\* The raw line yields a move.
Yields(ln) == parse_g1_xy(ln) # None

\* C11: import partition. The scan returns the moves of the lines that parse, in
\* the order of their lines, and the skipped count is the number of lines that
\* yield no move: parsed count + skipped count = number of lines, and a line that
\* does not parse never ends the scan.
C11_ImportPartition ==
    op.name = "scan" =>
        /\ op.out.parsed = [i \in 1..Len(SelectSeq(op.args, Yields)) |->
                                parse_g1_xy(SelectSeq(op.args, Yields)[i])]
        /\ op.out.skipped = Cardinality({i \in 1..Len(op.args) : ~Yields(op.args[i])})
        /\ Len(op.out.parsed) + op.out.skipped = Len(op.args)

\* C11 witness: a file of three G1 lines and two spindle-token lines has been
\* scanned into the three moves (0,0), (5,5), (0,0) with two lines skipped.
C11_Witness ==
    /\ op.name = "scan"
    /\ op.args = << G1(<<"0">>, <<"0">>) \o <<"\n">>,
                    <<"M", "3", "\n">>,
                    <<"g", "1", " ", "x", "5", ",", "y", "5", " ", ";", " ", "c", "u", "t", "\n">>,
                    <<"m", "5">>,
                    G1(<<"0">>, <<"0">>) \o <<"\n">> >>
    /\ op.out.parsed = <<<<Flt(0), Flt(0)>>, <<Flt(5), Flt(5)>>, <<Flt(0), Flt(0)>>>>
    /\ op.out.skipped = 2

\* The text is a numeric input: float() reads it as a real number.
Numeric(text) == ParseFloat(text) # None /\ Real(ParseFloat(text)[1])

\* The float is an integer: it has no decimals.
IsWhole(f) == Real(f) /\ f.ex >= 0

\* C12: canonical number text. For numeric text that represents an integer the
\* result of fmt_number has no decimal point; for numeric text that represents a
\* non-integer (with any number of decimals) the result re-parses to a value within
\* 1e-9 of the input.
C12_CanonicalNumber ==
    (op.name = "fmt" /\ Numeric(op.args)) =>
        IF IsWhole(ParseFloat(op.args)[1])
        THEN \A i \in 1..Len(op.out) : op.out[i] # "."
        ELSE /\ ParseFloat(op.out) # None
             /\ _eq(ParseFloat(op.out)[1], ParseFloat(op.args)[1])

\* The number the plain decimal text t ("ddd", "ddd.ddd", with or without "-")
\* stands for, without its sign, or None.
TextValue(t) == Mantissa(IF t # <<>> /\ Head(t) = "-" THEN Tail(t) ELSE t)

\* The distance between the decimals x and y.
DDist(x, y) == IF DCmp(x, y) >= 0 THEN DSub(x, y) ELSE DSub(y, x)

\* C12 as the code has it: for numeric text that represents an integer the result
\* has no decimal point; for numeric text that represents a non-integer the result
\* is a decimal number of at most 6 decimals that is at most 0.0000005 away from
\* the value of the input (it is that value rounded to 6 decimals), and it
\* re-parses to the input itself when the input has at most 6 decimals.
C12_CanonicalRounded ==
    (op.name = "fmt" /\ Numeric(op.args)) =>
        IF IsWhole(ParseFloat(op.args)[1])
        THEN \A i \in 1..Len(op.out) : op.out[i] # "."
        ELSE /\ ParseFloat(op.out) # None
             /\ TextValue(op.out) # None
             /\ TextValue(op.out)[1].ex >= -6
             /\ ParseFloat(op.out)[1].neg => ParseFloat(op.args)[1].neg
             /\ DCmp(DDist(Scale10(TextValue(op.out)[1], 0),
                           Exact(DecOf(ParseFloat(op.args)[1]))),
                     Dec(<<5>>, -7)) <= 0
             /\ ParseFloat(op.args)[1].ex >= -6
                    => ParseFloat(op.out)[1] = ParseFloat(op.args)[1]

\* C12 witness: fmt_number has turned 0.1234567 into 0.123457.
C12_Witness ==
    /\ op.name = "fmt"
    /\ op.args = <<"0", ".", "1", "2", "3", "4", "5", "6", "7">>
    /\ op.out = <<"0", ".", "1", "2", "3", "4", "5", "7">>

\* C13: the snapshot is consumed by restore. After an undo that restored a
\* snapshot (here: one that changed the document) the snapshot slot is empty.
C13_SnapshotConsumed ==
    (op.name = "undo" /\ gcode_lines # op.before) => last_snapshot = None

\* A handler that takes a snapshot starts its work in this step.
Mutates ==
    \/ pc = "idle" /\ pc' = "idle" /\ op' # op /\ Applied(op')
    \/ pc = "idle" /\ pc' = "loop"

\* C14: single-level undo. The snapshot slot holds at most one document; each
\* mutating operation overwrites it with the document it starts from, so that
\* after m1 then m2 an undo restores the document as it was just after m1; an undo
\* leaves the slot as it is, and a further undo leaves the document where it is:
\* the document from before m1 does not come back.
C14_SingleLevelUndo ==
    [][/\ last_snapshot' = None \/ Len(last_snapshot') = 1
       /\ Mutates => last_snapshot' = <<gcode_lines>>
       /\ (op'.name = "undo" /\ last_snapshot # None)
            => (gcode_lines' = last_snapshot[1] /\ last_snapshot' = last_snapshot)
       /\ (op'.name = "undo" /\ op.name = "undo") => gcode_lines' = gcode_lines]_vars

\* C14 witness: after a first operation made the one record G1 X0 Y0 and a second
\* one started from it, undo has run on the document that already was that record:
\* the empty document from before the first operation has not come back.
C14_Witness ==
    /\ op.name = "undo"
    /\ op.before = <<G1(<<"0">>, <<"0">>)>>
    /\ gcode_lines = <<G1(<<"0">>, <<"0">>)>>
    /\ last_snapshot = <<gcode_lines>>

\* The moves of the lines of a file that parse, in the order of their lines.
MovesIn(file) ==
    LET usable == SelectSeq(file, Yields)
    IN  [i \in 1..Len(usable) |-> parse_g1_xy(usable[i])]

\* The document reached from start by appending the moves one by one, first to last.
\* A move whose append raises ends the feed: the moves after it are not appended.
RECURSIVE FedFrom(_, _)
FedFrom(start, moves) ==
    IF moves = <<>> THEN start
    ELSE IF any_raises(SubSeq(moves, 1, Len(moves) - 1))
    THEN FedFrom(start, SubSeq(moves, 1, Len(moves) - 1))
    ELSE add_or_merge_line(FedFrom(start, SubSeq(moves, 1, Len(moves) - 1)),
                           moves[Len(moves)][1], moves[Len(moves)][2])

\* C15: import application. An import that was applied (op.before is the document
\* it started on) has taken one snapshot, of the document before the import; with
\* replace the document is the parsed moves appended one by one to the empty
\* document, without replace the parsed moves appended one by one to the document
\* before the import, so the merge rule applies across the join and along the
\* imported run; an import that a move left by an exception is such a feed too.
C15_ImportApplied ==
    (op.name = "load" /\ op.msg \in {"Loaded", "OverflowError"}) =>
        /\ last_snapshot = <<op.before>>
        /\ gcode_lines = FedFrom(IF op.args[2] THEN <<>> ELSE op.before,
                                 MovesIn(Files[op.args[1]]))

\* C15 witness: the file with the moves (0,0), (1,0) has been imported without
\* replace into the document G1 X0 Y0; (1,0) was merged into the run along Y = 0
\* that starts in the old document.
C15_Witness ==
    /\ op.name = "load"
    /\ op.args = <<1, FALSE>>
    /\ op.before = <<G1(<<"0">>, <<"0">>)>>
    /\ gcode_lines = <<G1(<<"0">>, <<"0">>), G1(<<"1">>, <<"0">>)>>
    /\ last_snapshot = <<op.before>>

\* The records of lines from position i on whose positions are not in S.
RECURSIVE KeptFrom(_, _, _)
KeptFrom(lines, S, i) ==
    IF i > Len(lines) THEN <<>>
    ELSE (IF i \in S THEN <<>> ELSE <<lines[i]>>) \o KeptFrom(lines, S, i + 1)

\* The positions a remove was run with, as a set (position = index + 1).
Removed(o) == {o.args[i] : i \in 1..Len(o.args)}

\* C16: remove. A remove of a set of valid positions, listed in any order, leaves
\* exactly the records of the document whose positions are not in the set, in
\* their original order; the result is a function of the set of positions alone,
\* and the document is shorter by the number of distinct positions.
C16_RemoveExact ==
    (op.name = "remove" /\ op.args # <<>>) =>
        /\ Removed(op) \subseteq 1..Len(op.before)
        /\ gcode_lines = KeptFrom(op.before, Removed(op), 1)
        /\ Len(gcode_lines) = Len(op.before) - Cardinality(Removed(op))

\* C16 witness: of the four records G1 X0 Y0, G1 X5 Y5, G1 X10 Y0, G1 X0 Y5 the
\* third and the first have been removed, picked in that order; the second and
\* the fourth are left, in their order.
C16_Witness ==
    /\ op.name = "remove"
    /\ op.args = <<3, 1>>
    /\ op.before = <<G1(<<"0">>, <<"0">>), G1(<<"5">>, <<"5">>),
                     G1(<<"1", "0">>, <<"0">>), G1(<<"0">>, <<"5">>)>>
    /\ gcode_lines = <<G1(<<"5">>, <<"5">>), G1(<<"0">>, <<"5">>)>>

\* C17: record well-formedness. Every record of the document is G1 X<num> Y<num>
\* with canonical numbers and parses to a move, never to none, and the record an
\* append has just written parses to the move it was built from.
C17_RecordRoundTrip ==
    /\ \A i \in 1..Len(gcode_lines) :
          /\ parse_g1_xy(gcode_lines[i]) # None
          /\ gcode_lines[i] = new_text(RecX(gcode_lines[i]), RecY(gcode_lines[i]))
    /\ (op.name = "append" /\ gcode_lines # <<>>) =>
          /\ _eq(RecX(gcode_lines[Len(gcode_lines)]), op.args[1])
          /\ _eq(RecY(gcode_lines[Len(gcode_lines)]), op.args[2])

\* An append step keeps the length or adds one to it and leaves every record
\* before the last position as it was; when the last two records do not both share
\* Y with the new move and do not both share X with it, the step adds the new
\* record at the end and leaves all the old records as they were.
C18_Step ==
    op'.name = "append" =>
        /\ Len(gcode_lines') - Len(gcode_lines) \in {0, 1}
        /\ \A i \in 1..(Len(gcode_lines) - 1) : gcode_lines'[i] = gcode_lines[i]
        /\ Len(gcode_lines') = Len(gcode_lines) + 1
              => SubSeq(gcode_lines', 1, Len(gcode_lines)) = gcode_lines
        /\ (~LastTwoShareY(gcode_lines, op'.args[2])
                /\ ~LastTwoShareX(gcode_lines, op'.args[1]))
              => gcode_lines' = Append(gcode_lines, new_text(op'.args[1], op'.args[2]))

\* Appending (0,0), (5,0), (5,5) to an empty document leaves three records.
C18_Example ==
    FedFrom(<<>>, <<<<Flt(0), Flt(0)>>, <<Flt(5), Flt(0)>>, <<Flt(5), Flt(5)>>>>)
        = <<G1(<<"0">>, <<"0">>), G1(<<"5">>, <<"0">>), G1(<<"5">>, <<"5">>)>>

\* C18: append frame. Every append changes the length of the document by 0 or by
\* 1 and changes no record other than the one at the last position; when the last
\* two records do not both share Y with the new move and do not both share X with
\* it, or there are fewer than two records, the new record is added at the end and
\* every earlier record is unchanged; appending (0,0), (5,0), (5,5) yields 3
\* records.
C18_AppendFrame == C18_Example /\ [][C18_Step]_vars

\* C18 witness: (5,5) has just been appended to G1 X0 Y0, G1 X5 Y0, whose records
\* share Y = 0 but not with the new move, and share no X: the document is the three
\* records of the example.
C18_Witness ==
    /\ op.name = "append"
    /\ op.args = <<Flt(5), Flt(5)>>
    /\ op.before = <<G1(<<"0">>, <<"0">>), G1(<<"5">>, <<"0">>)>>
    /\ gcode_lines = Append(op.before, G1(<<"5">>, <<"5">>))

\* The handler run o returned without applying: a submit with an invalid
\* coordinate (one that is no number, or an infinity), a loop on an empty document
\* or without a bound, a remove with an empty selection, a clear of an empty
\* document, an import that found no move.
NotApplied(o) ==
    \/ o.name = "submit" /\ o.msg \in {"Missing values", "OverflowError"}
    \/ o.name = "loop" /\ o.msg \in {"Nothing to loop", "No limits"}
    \/ o.name = "remove" /\ o.args = <<>>
    \/ o.name = "clear" /\ o.args = <<>>
    \/ o.name = "load" /\ o.msg = "No X/Y found"

\* C19: an operation that returns without applying takes no snapshot. Such a run
\* leaves the document and the snapshot slot as they were, so that right after an
\* operation that applied the slot still holds the document from before that
\* operation, and an undo that follows restores the document in the slot.
C19_NoApplyNoSnapshot ==
    [][/\ NotApplied(op') => UNCHANGED <<gcode_lines, last_snapshot>>
       /\ (NotApplied(op') /\ Applied(op)) => last_snapshot' = <<op.before>>
       /\ (NotApplied(op) /\ op'.name = "undo") =>
             /\ last_snapshot # None => gcode_lines' = last_snapshot[1]
             /\ last_snapshot = None => gcode_lines' = gcode_lines
             /\ last_snapshot' = last_snapshot]_vars

\* C19 witness: a submit with an invalid coordinate has returned on the document
\* G1 X0 Y0, G1 X5 Y5, and the slot still holds the one-record document from before
\* the operation that added the second record.
C19_Witness ==
    /\ op.name = "submit"
    /\ op.msg = "Missing values"
    /\ gcode_lines = <<G1(<<"0">>, <<"0">>), G1(<<"5">>, <<"5">>)>>
    /\ last_snapshot = <<<<G1(<<"0">>, <<"0">>)>>>>

\* Group kk of the running loop, computed from the records of the document the
\* loop started on.
GroupOfBefore(kk) == Shifted(MovesOf(op.before), dx, dy, kk)

\* C20: loop frame. Every group of a loop is the moves of the pre-loop document
\* shifted by k offsets, whatever the loop has written since: a pass that goes on
\* feeds that group through append (so does a pass that a move of the group ends
\* by an exception), and a pass that ends the loop by its break has a move of that
\* group over a bound. No pass makes the document shorter, and the records at the
\* positions before the last position of the pre-loop document stay as they were
\* before the loop; only the last pre-loop record may be overwritten.
C20_LoopFrame ==
    [][pc = "loop" =>
          /\ base_block = MovesOf(op.before)
          /\ (pc' = "loop" \/ op'.msg = "OverflowError")
                => gcode_lines' = FedFrom(gcode_lines, GroupOfBefore(k))
          /\ (pc' = "idle" /\ op'.msg # "OverflowError") =>
                \E i \in 1..Len(op.before) :
                    ~WithinLimits(GroupOfBefore(k)[i], max_x, max_y)
          /\ Len(gcode_lines') >= Len(gcode_lines)
          /\ Len(gcode_lines') >= Len(op.before)
          /\ \A i \in 1..(Len(op.before) - 1) : gcode_lines'[i] = op.before[i]]_vars

\* C20 witness: the loop over G1 X0 Y0, G1 X1 Y0 with dx = 2 and max_x = 5 has
\* written two groups and is about to build the third: the first record is as it
\* was, the last one has been overwritten by the merges and is no longer a base
\* move, and base_block still holds (0,0), (1,0).
C20_Witness ==
    /\ pc = "loop"
    /\ k = 3
    /\ appended = 2
    /\ op.before = <<G1(<<"0">>, <<"0">>), G1(<<"1">>, <<"0">>)>>
    /\ base_block = <<<<Flt(0), Flt(0)>>, <<Flt(1), Flt(0)>>>>
    /\ gcode_lines = <<G1(<<"0">>, <<"0">>), G1(<<"5">>, <<"0">>)>>

====
